---- MODULE Spec2Model ----
(***************************************************************************)
(* claude-remote-guard: the approval pipeline.                             *)
(*                                                                         *)
(*  - the hook process (src/bin/hook.ts main, lib/supabase.ts              *)
(*    listenForApproval): classify, persist, notify, race remote / local   *)
(*    TTY / deadline, emit one decision;                                   *)
(*  - the store (approval_requests, rate_limits and their row-level        *)
(*    policies, supabase/migrations/001);                                  *)
(*  - the webhook endpoints (slack-callback, telegram-callback,            *)
(*    whatsapp-callback): method gate, rate limit, provider                *)
(*    authentication, payload parse, fetch, freshness, machine-identity    *)
(*    check, update where status = pending.                                *)
(*                                                                         *)
(* Spec        : one hook invocation running against the store, with       *)
(*               authentic callbacks arriving at the configured endpoint.  *)
(* SpecWebhook : the endpoints alone, with arbitrary requests and a clock, *)
(*               against a row a hook inserted earlier.                    *)
(***************************************************************************)
EXTENDS Integers, Sequences, FiniteSets, TLC

VARIABLES
  \* ---- hook process (src/bin/hook.ts) ----
  pc,              \* position of main()
  stdin,           \* what readStdin() returns, and what the host machine is like
  config,          \* what loadConfig() returns
  out,             \* the JSON objects written to standard output, in order
  supabaseClient,  \* lib/supabase.ts module variable: TRUE when non-null
  result,          \* the value Promise.race resolved with
  settled,         \* history: the promise settlements, in order
  resolved,        \* listenForApproval: let resolved
  timeoutId,       \* listenForApproval: the deadline timer
  channel,         \* listenForApproval: the realtime channel
  tty,             \* createLocalInputListener: the /dev/tty reader
  localResolved,   \* createLocalInputListener: let resolved
  notified,        \* a notification carrying the request id has been delivered
  host,            \* the machine the hook runs on (os.userInfo(), /dev/tty)
  signedMachineId, \* main: const signedMachineId
  analysis,        \* main: const analysis
  masked,          \* maskSensitiveInfo: a text, then let masked after each application
  \* ---- store ----
  approval_requests, \* id -> row
  rate_limits,       \* identifier -> sequence of created_at
  feed,              \* UPDATE post-images published to the hook's channel
  hookUpdates,       \* history: the hook's own update requests (outcome, row status before)
  \* ---- webhook endpoints ----
  env,             \* Deno.env of the deployed function
  cb,              \* callback handler instances
  served,          \* history: number of requests the endpoint has received
  verification,    \* serve: const verification = await verifySignedMachineId(...), with its inputs
  \* ---- time ----
  now,             \* Date.now() / 1000
  ticks

vars == <<pc, stdin, config, out, supabaseClient, result, settled, resolved,
          timeoutId, channel, tty, localResolved, notified, host, signedMachineId,
          approval_requests, rate_limits, feed, hookUpdates, env, cb, served, now, ticks, verification, analysis, masked>>

----------------------------------------------------------------------------
\* Bounds of the model

\* number of clock advances in one behaviour
MaxTicks == 2
\* number of callback handler instances
MaxCallbacks == 2
\* number of requests an endpoint receives one after the other (SpecWebhook)
MaxRequests == 2
\* longest list of custom patterns, and of whitelist entries, in a configuration
MaxPatterns == 2
\* longest text given to the secret masker, in pieces of text
MaxLen == 5
\* number of times the masker is applied to its own result
MaxMaskings == 2

----------------------------------------------------------------------------
\* Program constants

\* verifySignedMachineId(signedId, maxAgeSeconds = 600)
maxAgeSeconds == 600
MAX_REQUEST_AGE_SECONDS == 3600
\* Slack replay window: Math.abs(currentTime - requestTime) > 300
SlackReplayWindow == 300
\* checkRateLimit
windowSeconds == 60
maxRequests == 30
\* fingerprint: sha256 hex digest, substring(0, 32)
FingerprintLength == 32
\* HMAC hex digest, substring(0, 16)
SignatureLength == 16
\* decimal digits of Math.floor(Date.now() / 1000)
\* RLS insert policy: length(machine_id) >= 16
MinMachineIdLength == 16

NullTime == 0 - 1
R == "R"

Severities == {"low", "medium", "high", "critical"}

----------------------------------------------------------------------------
\* Machine identity (hook.ts getMachineId / getSignedMachineId)

\* A string is a sequence of characters.  The characters that matter are the
\* separator ':', the decimal digits, and runs of hexadecimal digits that are
\* never taken apart (a digest prefix), kept as one element with their length.
Colon == [k |-> ":"]

Digit(d) == [k |-> "digit", digit |-> d]

\* any character that is neither ':' nor a decimal digit
Letter == [k |-> "letter"]

\* createHash('sha256')...digest('hex').substring(0, 32) of a host
HexDigest(h) == [k |-> "hex", of |-> h]

\* String(n) of a non-negative integer: its decimal digits
RECURSIVE String(_)
String(n) ==
  IF n < 10 THEN <<Digit(n)>> ELSE Append(String(n \div 10), Digit(n % 10))

\* the leading run of decimal digits of a string
RECURSIVE LeadingDigits(_)
LeadingDigits(str) ==
  IF str = <<>> \/ Head(str).k # "digit" THEN <<>>
  ELSE <<Head(str).digit>> \o LeadingDigits(Tail(str))

RECURSIVE DigitsValue(_)
DigitsValue(ds) ==
  IF ds = <<>> THEN 0
  ELSE 10 * DigitsValue(SubSeq(ds, 1, Len(ds) - 1)) + ds[Len(ds)]

\* a parse that reads the first digit only
parseInt_FirstDigit(str) ==
  [nan |-> LeadingDigits(str) = <<>>,
   value |-> IF LeadingDigits(str) = <<>> THEN 0 ELSE LeadingDigits(str)[1]]

\* parseInt(str, 10): the value of the leading digits, NaN when there are none
parseInt(str) ==
  [nan |-> LeadingDigits(str) = <<>>, value |-> DigitsValue(LeadingDigits(str))]

\* HMAC-SHA256(secret, payload).digest('hex').substring(0, 16): a keyed
\* function of the secret and of the payload string
Hmac16(secret, payload) == [k |-> "hmac", key |-> secret, payload |-> payload]

\* main: config.machineIdSecret ? getSignedMachineId(...) : machineId
UnsignedMachineId(machineId) == machineId

\* `${machineId}:${timestamp}:${signature}` with timestamp = floor(now / 1000)
getSignedMachineId(machineId, secret, t) ==
  LET payload == machineId \o <<Colon>> \o String(t)
  IN  payload \o <<Colon>> \o <<Hmac16(secret, payload)>>

\* length(machine_id) in characters
RECURSIVE MachineIdLength(_)
MachineIdLength(m) ==
  IF m = <<>> THEN 0
  ELSE MachineIdLength(Tail(m)) +
       (CASE Head(m).k = "hex" -> FingerprintLength
          [] Head(m).k = "hmac" -> SignatureLength
          [] OTHER -> 1)

----------------------------------------------------------------------------
\* Rule engine (lib/rules.ts analyzeCommand).  A regular expression is
\* represented by its source and by the commands it matches.

\* the commands the model draws from
Commands ==
  { "ls -la", "ls; rm -rf /", "rm -rf /", "sudo rm -rf /", "git push --force",
    "  npm run deploy  ", "my-dangerous-cmd --flag" }

\* command.trim()
trim(command) == IF command = "  npm run deploy  " THEN "npm run deploy" ELSE command

\* SAFE_PATTERNS, in order
SAFE_PATTERNS ==
  << [source |-> "^\\s*git\\s+status\\s*$", matches |-> {}],
     [source |-> "^\\s*ls\\b", matches |-> {"ls -la", "ls; rm -rf /"}],
     [source |-> "^\\s*npm\\s+list\\b", matches |-> {}] >>

\* a pattern list that tries the general patterns before the specific ones
DANGER_PATTERNS_GeneralFirst ==
  << [source |-> "\\bgit\\s+push\\b", matches |-> {"git push --force"},
      severity |-> "medium", reason |-> "Pushing changes to remote repository"],
     [source |-> "\\bsudo\\b", matches |-> {"sudo rm -rf /"},
      severity |-> "high", reason |-> "Elevated privileges command"],
     [source |-> "\\brm\\s+(-[a-zA-Z]*r|-[a-zA-Z]*f)",
      matches |-> {"ls; rm -rf /", "rm -rf /", "sudo rm -rf /"},
      severity |-> "high", reason |-> "Recursive or force file deletion"],
     [source |-> "\\brm\\s+-rf\\s+\\/(\\s|$|\\*)",
      matches |-> {"ls; rm -rf /", "rm -rf /", "sudo rm -rf /"},
      severity |-> "critical", reason |-> "Recursive force delete from root directory"],
     [source |-> "\\bgit\\s+push\\s+.*--force\\b", matches |-> {"git push --force"},
      severity |-> "critical", reason |-> "Force push can overwrite remote history"] >>

\* DANGER_PATTERNS, in order
DANGER_PATTERNS ==
  << [source |-> "\\bgit\\s+push\\s+.*--force\\b", matches |-> {"git push --force"},
      severity |-> "critical", reason |-> "Force push can overwrite remote history"],
     [source |-> "\\brm\\s+-rf\\s+\\/(\\s|$|\\*)",
      matches |-> {"ls; rm -rf /", "rm -rf /", "sudo rm -rf /"},
      severity |-> "critical", reason |-> "Recursive force delete from root directory"],
     [source |-> "\\brm\\s+(-[a-zA-Z]*r|-[a-zA-Z]*f)",
      matches |-> {"ls; rm -rf /", "rm -rf /", "sudo rm -rf /"},
      severity |-> "high", reason |-> "Recursive or force file deletion"],
     [source |-> "\\bsudo\\b", matches |-> {"sudo rm -rf /"},
      severity |-> "high", reason |-> "Elevated privileges command"],
     [source |-> "\\bgit\\s+push\\b", matches |-> {"git push --force"},
      severity |-> "medium", reason |-> "Pushing changes to remote repository"] >>

\* new RegExp(pattern, 'i') of a whitelist entry: "(" does not compile
WhitelistRegExp(pattern) ==
  CASE pattern = "^npm\\s+run\\s+deploy$" -> [valid |-> TRUE, matches |-> {"npm run deploy"}]
    [] pattern = "\\brm\\b" ->
         [valid |-> TRUE, matches |-> {"ls; rm -rf /", "rm -rf /", "sudo rm -rf /"}]
    [] OTHER -> [valid |-> FALSE, matches |-> {}]

\* regex.test(trimmedCommand)
test(regex, trimmedCommand) == trimmedCommand \in regex.matches

\* for (const x of list) if (...) return: the first index from i whose entry
\* passes (0 when the loop ends without a return); passes[k]: entry k passes
RECURSIVE FirstMatch(_, _)
FirstMatch(passes, i) ==
  IF i > Len(passes) THEN 0
  ELSE IF passes[i] THEN i
  ELSE FirstMatch(passes, i + 1)

\* a rule engine without the safe allowlist and the whitelist
analyzeCommand_DangerPatternsOnly(command, customPatterns, whitelist) ==
  LET trimmedCommand == trim(command)
      Hit(dp) == test(dp, trimmedCommand)
      custom == FirstMatch([k \in DOMAIN customPatterns |-> Hit(customPatterns[k])], 1)
      builtin == FirstMatch([k \in DOMAIN DANGER_PATTERNS |-> Hit(DANGER_PATTERNS[k])], 1)
  IN  IF custom # 0
        THEN [isDangerous |-> TRUE, severity |-> customPatterns[custom].severity,
              reason |-> customPatterns[custom].reason,
              matchedPattern |-> customPatterns[custom].source]
      ELSE IF builtin # 0
        THEN [isDangerous |-> TRUE, severity |-> DANGER_PATTERNS[builtin].severity,
              reason |-> DANGER_PATTERNS[builtin].reason,
              matchedPattern |-> DANGER_PATTERNS[builtin].source]
      ELSE [isDangerous |-> FALSE, severity |-> "low",
            reason |-> "No dangerous patterns detected", matchedPattern |-> "undefined"]

\* a rule engine whose built-in patterns come before the user's
analyzeCommand_BuiltinFirst(command, customPatterns, whitelist) ==
  LET trimmedCommand == trim(command)
      Hit(dp) == test(dp, trimmedCommand)
      Listed(pattern) == /\ WhitelistRegExp(pattern).valid
                         /\ test(WhitelistRegExp(pattern), trimmedCommand)
      custom == FirstMatch([k \in DOMAIN customPatterns |-> Hit(customPatterns[k])], 1)
      builtin == FirstMatch([k \in DOMAIN DANGER_PATTERNS |-> Hit(DANGER_PATTERNS[k])], 1)
  IN  IF FirstMatch([k \in DOMAIN SAFE_PATTERNS |-> Hit(SAFE_PATTERNS[k])], 1) # 0
        THEN [isDangerous |-> FALSE, severity |-> "low", reason |-> "Safe command",
              matchedPattern |-> "undefined"]
      ELSE IF FirstMatch([k \in DOMAIN whitelist |-> Listed(whitelist[k])], 1) # 0
        THEN [isDangerous |-> FALSE, severity |-> "low", reason |-> "Whitelisted command",
              matchedPattern |-> "undefined"]
      ELSE IF builtin # 0
        THEN [isDangerous |-> TRUE, severity |-> DANGER_PATTERNS[builtin].severity,
              reason |-> DANGER_PATTERNS[builtin].reason,
              matchedPattern |-> DANGER_PATTERNS[builtin].source]
      ELSE IF custom # 0
        THEN [isDangerous |-> TRUE, severity |-> customPatterns[custom].severity,
              reason |-> customPatterns[custom].reason,
              matchedPattern |-> customPatterns[custom].source]
      ELSE [isDangerous |-> FALSE, severity |-> "low",
            reason |-> "No dangerous patterns detected", matchedPattern |-> "undefined"]

analyzeCommand(command, customPatterns, whitelist) ==
  LET trimmedCommand == trim(command)
      Hit(dp) == test(dp, trimmedCommand)
      \* an entry that does not compile is skipped
      Listed(pattern) == /\ WhitelistRegExp(pattern).valid
                         /\ test(WhitelistRegExp(pattern), trimmedCommand)
      custom == FirstMatch([k \in DOMAIN customPatterns |-> Hit(customPatterns[k])], 1)
      builtin == FirstMatch([k \in DOMAIN DANGER_PATTERNS |-> Hit(DANGER_PATTERNS[k])], 1)
  IN  IF FirstMatch([k \in DOMAIN SAFE_PATTERNS |-> Hit(SAFE_PATTERNS[k])], 1) # 0
        THEN [isDangerous |-> FALSE, severity |-> "low", reason |-> "Safe command",
              matchedPattern |-> "undefined"]
      ELSE IF FirstMatch([k \in DOMAIN whitelist |-> Listed(whitelist[k])], 1) # 0
        THEN [isDangerous |-> FALSE, severity |-> "low", reason |-> "Whitelisted command",
              matchedPattern |-> "undefined"]
      ELSE IF custom # 0
        THEN [isDangerous |-> TRUE, severity |-> customPatterns[custom].severity,
              reason |-> customPatterns[custom].reason,
              matchedPattern |-> customPatterns[custom].source]
      ELSE IF builtin # 0
        THEN [isDangerous |-> TRUE, severity |-> DANGER_PATTERNS[builtin].severity,
              reason |-> DANGER_PATTERNS[builtin].reason,
              matchedPattern |-> DANGER_PATTERNS[builtin].source]
      ELSE [isDangerous |-> FALSE, severity |-> "low",
            reason |-> "No dangerous patterns detected", matchedPattern |-> "undefined"]

\* some pattern of the list matches the command
MatchesAny(patterns, command) ==
  \E i \in DOMAIN patterns : test(patterns[i], trim(command))

\* some whitelist entry compiles and matches the command
Whitelisted(whitelist, command) ==
  \E i \in DOMAIN whitelist :
    /\ WhitelistRegExp(whitelist[i]).valid
    /\ test(WhitelistRegExp(whitelist[i]), trim(command))

\* main has not reached analyzeCommand
NoAnalysis ==
  [isDangerous |-> FALSE, severity |-> "low", reason |-> "none", matchedPattern |-> "undefined"]

----------------------------------------------------------------------------
\* Secret masker (lib/messenger/base.ts and lib/supabase.ts maskSensitiveInfo).
\* A text is a sequence of pieces, each a run of characters that the five
\* patterns treat alike: "b64" stands for a run of 26 characters of
\* [A-Za-z0-9+/=], "'" for a quote, " " for white space.

REDACTED == "[REDACTED]"

\* number of characters of a piece
PieceLength(piece) ==
  CASE piece = "b64" -> 26
    [] piece = "Authorization" -> 13
    [] piece = REDACTED -> 10
    [] piece = "API_KEY=" -> 8
    [] piece = "?token=" -> 7
    [] piece = "Bearer" -> 6
    [] piece \in {"Basic", "_KEY="} -> 5
    [] piece = "://" -> 3
    [] OTHER -> 1

\* every piece a text or a masked text is made of
Alphabet ==
  { "://", ":", "@", "'", " ", "Authorization", "Bearer", "Basic", "b64",
    "?token=", "API_KEY=", "_KEY=", REDACTED }

\* \s
IsSpace == {" "}

\* [^&\s'"] and [^\s'"]
IsValue == Alphabet \ {" ", "'"}

\* [^:]
IsNotColon == Alphabet \ {":", "://"}

\* [^@]
IsNotAt == Alphabet \ {"@"}

\* [A-Za-z0-9+/=]
IsBase64 == {"b64", "Authorization", "Bearer", "Basic"}

\* the longest prefix of a text whose pieces are all of a class: a greedy X*
RECURSIVE Prefix(_, _)
Prefix(class, text) ==
  IF text = <<>> \/ Head(text) \notin class THEN <<>>
  ELSE <<Head(text)>> \o Prefix(class, Tail(text))

\* a text without its first n pieces
Drop(text, n) == SubSeq(text, n + 1, Len(text))

RECURSIVE TextLength(_)
TextLength(text) ==
  IF text = <<>> THEN 0 ELSE PieceLength(Head(text)) + TextLength(Tail(text))

\* replace(/([?&])(api[_-]?key|token|...)=([^&\s'"]+)/gi, '$1$2=[REDACTED]')
RECURSIVE QueryParameter(_)
QueryParameter(text) ==
  IF text = <<>> THEN <<>>
  ELSE LET value == Prefix(IsValue, Tail(text))
       IN  IF Head(text) = "?token=" /\ value # <<>>
             THEN <<"?token=", REDACTED>> \o QueryParameter(Drop(Tail(text), Len(value)))
           ELSE <<Head(text)>> \o QueryParameter(Tail(text))

\* replace(/(Authorization:\s*)(Bearer\s+)?[^\s'"]+/gi, '$1$2[REDACTED]'); the
\* colon may be the first character of "://"
RECURSIVE AuthorizationHeader(_)
AuthorizationHeader(text) ==
  IF text = <<>> THEN <<>>
  ELSE IF Head(text) = "Authorization" /\ Len(text) >= 2 /\ text[2] = "://"
    THEN LET rest == Drop(text, 2)
             token == Prefix(IsValue, rest)
         IN  <<"Authorization", ":", REDACTED>> \o AuthorizationHeader(Drop(rest, Len(token)))
  ELSE IF Head(text) = "Authorization" /\ Len(text) >= 2 /\ text[2] = ":"
    THEN LET rest == Drop(text, 2)
             spaces == Prefix(IsSpace, rest)
             a == Drop(rest, Len(spaces))
             bearer == a # <<>> /\ Head(a) = "Bearer"
             bearerSpaces == IF bearer THEN Prefix(IsSpace, Tail(a)) ELSE <<>>
             b == Drop(a, 1 + Len(bearerSpaces))
             bearerToken == Prefix(IsValue, b)
             token == Prefix(IsValue, a)
         IN  IF bearer /\ bearerSpaces # <<>> /\ bearerToken # <<>>
               THEN <<"Authorization", ":">> \o spaces \o <<"Bearer">> \o bearerSpaces
                      \o <<REDACTED>> \o AuthorizationHeader(Drop(b, Len(bearerToken)))
             ELSE IF token # <<>>
               THEN <<"Authorization", ":">> \o spaces \o <<REDACTED>>
                      \o AuthorizationHeader(Drop(a, Len(token)))
             ELSE <<Head(text)>> \o AuthorizationHeader(Tail(text))
  ELSE <<Head(text)>> \o AuthorizationHeader(Tail(text))

\* replace(/(export\s+)?(AWS_SECRET_ACCESS_KEY|...|API_KEY|...)=([^\s'"]+)/gi,
\*         '$1$2=[REDACTED]')
RECURSIVE EnvironmentAssignment(_)
EnvironmentAssignment(text) ==
  IF text = <<>> THEN <<>>
  ELSE LET value == Prefix(IsValue, Tail(text))
       IN  IF Head(text) = "API_KEY=" /\ value # <<>>
             THEN <<"API_KEY=", REDACTED>>
                    \o EnvironmentAssignment(Drop(Tail(text), Len(value)))
           ELSE <<Head(text)>> \o EnvironmentAssignment(Tail(text))

\* replace(/:\/\/([^:]+):([^@]+)@/g, '://$1:[REDACTED]@'); the second colon may
\* be the first character of a later "://", whose slashes then open the password
RECURSIVE ConnectionString(_)
ConnectionString(text) ==
  IF text = <<>> THEN <<>>
  ELSE LET user == Prefix(IsNotColon, Tail(text))
           afterUser == Drop(Tail(text), Len(user))
           colon == user # <<>> /\ afterUser # <<>>
           slashes == colon /\ Head(afterUser) = "://"
           password == IF colon THEN Prefix(IsNotAt, Tail(afterUser)) ELSE <<>>
           afterPassword == IF colon THEN Drop(Tail(afterUser), Len(password)) ELSE <<>>
       IN  IF /\ Head(text) = "://"
              /\ colon
              /\ afterPassword # <<>>
              /\ (password # <<>> \/ slashes)
             THEN <<"://">> \o user \o <<":", REDACTED, "@">>
                    \o ConnectionString(Tail(afterPassword))
           ELSE <<Head(text)>> \o ConnectionString(Tail(text))

\* replace(/(Basic\s+)[A-Za-z0-9+/=]{20,}/gi, '$1[REDACTED]'); the run may end
\* with the letters API of "API_KEY="
RECURSIVE BasicCredentials(_)
BasicCredentials(text) ==
  IF text = <<>> THEN <<>>
  ELSE LET spaces == Prefix(IsSpace, Tail(text))
           a == Drop(Tail(text), Len(spaces))
           run == Prefix(IsBase64, a)
           after == Drop(a, Len(run))
           letters == after # <<>> /\ Head(after) = "API_KEY="
           length == TextLength(run) + (IF letters THEN 3 ELSE 0)
       IN  IF Head(text) = "Basic" /\ spaces # <<>> /\ length >= 20
             THEN <<"Basic">> \o spaces \o <<REDACTED>>
                    \o (IF letters THEN <<"_KEY=">> \o BasicCredentials(Tail(after))
                        ELSE BasicCredentials(after))
           ELSE <<Head(text)>> \o BasicCredentials(Tail(text))

\* for (const { pattern, replacement } of SENSITIVE_PATTERNS) masked = masked.replace(...)
maskSensitiveInfo(text) ==
  BasicCredentials(ConnectionString(EnvironmentAssignment(
    AuthorizationHeader(QueryParameter(text)))))

----------------------------------------------------------------------------
\* Configuration (lib/config.ts loadConfig).  A configuration file is
\* represented by what loadConfig asks of it; an environment value is a string.

\* loadConfig returned null
NoConfig == [loaded |-> FALSE, defaultAction |-> "deny", timeoutSeconds |-> 10,
             machineIdSecret |-> "none", customPatternsValid |-> TRUE,
             customPatterns |-> <<>>, whitelist |-> <<>>]

\* process.env[envVar] === undefined
Unset == [set |-> FALSE, value |-> <<>>]

EnvValue(str) == [set |-> TRUE, value |-> str]

\* no CLAUDE_GUARD_* variable is set
NoProcessEnv == [CLAUDE_GUARD_DEFAULT_ACTION |-> "unset", CLAUDE_GUARD_TIMEOUT_SECONDS |-> Unset]

\* ~/.claude-guard/config.json does not exist
NoConfigFile ==
  [kind |-> "missing", hmac |-> "absent", decrypts |-> TRUE, services |-> TRUE,
   defaultAction |-> "deny", timeoutSeconds |-> 10, machineIdSecret |-> "none",
   customPatternsValid |-> TRUE, customPatterns |-> <<>>, whitelist |-> <<>>]

\* validateConfig: messenger and supabase sections, then the rules
validateConfig(services, defaultAction, timeoutSeconds) ==
  /\ services
  /\ timeoutSeconds >= 10
  /\ defaultAction \in {"allow", "deny"}

\* the override loop, for rules.defaultAction
OverrideDefaultAction(currentValue, envValue) ==
  IF envValue = "unset" THEN currentValue
  ELSE IF envValue = "allow" /\ currentValue = "deny" THEN currentValue
  ELSE envValue

\* the override loop, for rules.timeoutSeconds
OverrideTimeoutSeconds(currentValue, envValue) ==
  LET numValue == parseInt(envValue.value)
  IN  IF ~envValue.set THEN currentValue
      ELSE IF numValue.nan \/ numValue.value < 60 THEN currentValue
      ELSE numValue.value

\* a loader that applies the environment to rules.defaultAction as to any
\* other setting
loadConfig_NoWeakeningCheck(file, penv, saved) ==
  LET defaultAction == IF penv.CLAUDE_GUARD_DEFAULT_ACTION = "unset"
                         THEN file.defaultAction
                         ELSE penv.CLAUDE_GUARD_DEFAULT_ACTION
      timeoutSeconds ==
        OverrideTimeoutSeconds(file.timeoutSeconds, penv.CLAUDE_GUARD_TIMEOUT_SECONDS)
  IN  IF file.kind # "current" \/ file.hmac = "bad" \/ ~file.decrypts
           \/ ~validateConfig(file.services, defaultAction, timeoutSeconds)
        THEN NoConfig
      ELSE [loaded |-> TRUE, defaultAction |-> defaultAction,
            timeoutSeconds |-> timeoutSeconds, machineIdSecret |-> file.machineIdSecret,
            customPatternsValid |-> file.customPatternsValid,
            customPatterns |-> file.customPatterns, whitelist |-> file.whitelist]

\* a loader that does not verify the file's HMAC
loadConfig_NoIntegrityCheck(file, penv, saved) ==
  LET defaultAction ==
        OverrideDefaultAction(file.defaultAction, penv.CLAUDE_GUARD_DEFAULT_ACTION)
      timeoutSeconds ==
        OverrideTimeoutSeconds(file.timeoutSeconds, penv.CLAUDE_GUARD_TIMEOUT_SECONDS)
  IN  IF file.kind \in {"missing", "symlink", "unreadable"} THEN NoConfig
      ELSE IF file.kind = "legacy"
        THEN IF ~saved THEN NoConfig
             ELSE [loaded |-> TRUE, defaultAction |-> file.defaultAction,
                   timeoutSeconds |-> file.timeoutSeconds,
                   machineIdSecret |-> "generated",
                   customPatternsValid |-> file.customPatternsValid,
                   customPatterns |-> file.customPatterns, whitelist |-> file.whitelist]
      ELSE IF ~file.decrypts THEN NoConfig
      ELSE IF ~validateConfig(file.services, defaultAction, timeoutSeconds) THEN NoConfig
      ELSE [loaded |-> TRUE, defaultAction |-> defaultAction,
            timeoutSeconds |-> timeoutSeconds, machineIdSecret |-> file.machineIdSecret,
            customPatternsValid |-> file.customPatternsValid,
            customPatterns |-> file.customPatterns, whitelist |-> file.whitelist]

\* loadConfig(); saved: saveConfig of a migrated legacy file succeeds
loadConfig(file, penv, saved) ==
  LET defaultAction ==
        OverrideDefaultAction(file.defaultAction, penv.CLAUDE_GUARD_DEFAULT_ACTION)
      timeoutSeconds ==
        OverrideTimeoutSeconds(file.timeoutSeconds, penv.CLAUDE_GUARD_TIMEOUT_SECONDS)
  IN  IF file.kind \in {"missing", "symlink", "unreadable"} THEN NoConfig
      ELSE IF file.kind = "legacy"
        THEN \* migrateConfig, saveConfig, return: no override, no validation
             IF ~saved THEN NoConfig
             ELSE [loaded |-> TRUE, defaultAction |-> file.defaultAction,
                   timeoutSeconds |-> file.timeoutSeconds,
                   machineIdSecret |-> "generated",
                   customPatternsValid |-> file.customPatternsValid,
                   customPatterns |-> file.customPatterns, whitelist |-> file.whitelist]
      ELSE IF file.hmac = "bad" THEN NoConfig
      ELSE IF ~file.decrypts THEN NoConfig
      ELSE IF ~validateConfig(file.services, defaultAction, timeoutSeconds) THEN NoConfig
      ELSE [loaded |-> TRUE, defaultAction |-> defaultAction,
            timeoutSeconds |-> timeoutSeconds, machineIdSecret |-> file.machineIdSecret,
            customPatternsValid |-> file.customPatternsValid,
            customPatterns |-> file.customPatterns, whitelist |-> file.whitelist]

----------------------------------------------------------------------------
\* Store policies (supabase/migrations/001_create_approval_requests.sql)

\* "Allow insert pending requests"
InsertPolicy(row) ==
  /\ row.status = "pending"
  /\ row.resolved_at = NullTime
  /\ row.resolved_by = "null"
  /\ MachineIdLength(row.machine_id) >= MinMachineIdLength

\* a store without row-level security on updates
UpdatePolicy_Disabled(role) == TRUE

\* a store whose update policy admits every role
UpdatePolicy_AnyRole(role) == role \in {"anon", "service_role"}

\* "Allow update via service role only", GRANT ... TO anon without UPDATE
UpdatePolicy(role) == role = "service_role"

\* the status of row id, "absent" when the table has no such row
RowStatus(rows, id) == IF id \in DOMAIN rows THEN rows[id].status ELSE "absent"

\* the post-image of an UPDATE reaches the subscriber of the hook's channel
Publish(f, ch, status) == IF ch = "joined" THEN f \cup {status} ELSE f

----------------------------------------------------------------------------
\* Hook process: src/bin/hook.ts

Fingerprint == <<HexDigest("host")>>

NoResult == [status |-> "none", source |-> "none"]

output(o, decision, reason) == Append(o, [decision |-> decision, reason |-> reason])

\* a coordinator that denies whatever the configured default action is
DefaultDecision_AlwaysDeny(c) == "deny"

\* config.rules.defaultAction === 'allow' ? 'allow' : 'deny'
DefaultDecision(c) == IF c.defaultAction = "allow" THEN "allow" ELSE "deny"

\* main, lines 337-348: the decision for the verdict that won the race
VerdictOutput(o, c, res) ==
  IF res.status = "approved" THEN output(o, "allow", "Approved via")
  ELSE IF res.status = "rejected" THEN output(o, "deny", "Rejected via")
  ELSE output(o, DefaultDecision(c), "Approval timed out")

\* Promise.race([remotePromise, localInput.promise]): the first settlement
\* is the value of the race, later settlements are dropped
RaceResult(current, settlement) ==
  IF current.status = "none" THEN settlement ELSE current

\* localInput.cleanup(): rl.close(), ttyStream.destroy()
LocalCleanup(t) == IF t = "open" THEN "closed" ELSE t

\* listenForApproval cleanup(): client.removeChannel(channel)
removeChannel(ch) == IF ch \in {"joining", "joined"} THEN "removed" ELSE ch

\* shutdownSupabase(): removeAllChannels(), supabaseClient = null
removeAllChannels(ch) == IF ch \in {"joining", "joined"} THEN "removed" ELSE ch

\* a promise of the race settles; when it is the first, main resumes after
\* the await of line 330 and runs to the await of line 335
Settle(status, source) ==
  /\ settled' = Append(settled, [status |-> status, source |-> source])
  /\ result' = RaceResult(result, [status |-> status, source |-> source])
  /\ IF result.status = "none" /\ pc = "race"
       THEN /\ pc' = "shutdownR"
            /\ tty' = LocalCleanup(tty)
       ELSE UNCHANGED <<pc, tty>>

\* an input handling that lets an unreadable event through
parseInput_AllowUnparsed(kind) ==
  IF kind \in {"empty", "invalid", "nonBash", "noCommand"}
    THEN [decision |-> "allow", reason |-> ""]
  ELSE IF kind \in {"null", "noToolInput"}
    THEN [decision |-> "deny", reason |-> "Critical error"]
  ELSE [decision |-> "none", reason |-> ""]

\* main, lines 217-244: the decision for an input that is not a Bash command
\* ("none" when main goes on to loadConfig); JSON null and a Bash event
\* without tool_input throw a TypeError, which the outer catch answers
parseInput(kind) ==
  IF kind = "empty" THEN [decision |-> "deny", reason |-> "Empty input received"]
  ELSE IF kind = "invalid" THEN [decision |-> "deny", reason |-> "Invalid JSON input"]
  ELSE IF kind \in {"null", "noToolInput"}
    THEN [decision |-> "deny", reason |-> "Critical error"]
  ELSE IF kind \in {"nonBash", "noCommand"} THEN [decision |-> "allow", reason |-> ""]
  ELSE [decision |-> "none", reason |-> ""]

\* main, lines 216-293: from readStdin to the await of createRequest
main_start ==
  /\ pc = "start"
  /\ LET parsed == parseInput(stdin.kind)
         analysed == /\ parsed.decision = "none"
                     /\ config'.loaded /\ config'.customPatternsValid
         finish(decision, reason) ==
           /\ out' = output(out, decision, reason)
           /\ pc' = "done"
           /\ UNCHANGED <<supabaseClient, signedMachineId>>
     IN /\ IF parsed.decision = "none"
             THEN \E saved \in BOOLEAN :
                    config' = loadConfig(host.configFile, host.processEnv, saved)
             ELSE UNCHANGED config
        /\ analysis' = IF analysed
                         THEN analyzeCommand(stdin.command, config'.customPatterns,
                                             config'.whitelist)
                         ELSE analysis
        /\ CASE parsed.decision # "none" -> finish(parsed.decision, parsed.reason)
          [] OTHER ->
               IF ~config'.loaded THEN finish("allow", "")
               ELSE IF ~config'.customPatternsValid THEN finish("deny", "Critical error")
               ELSE IF ~analysis'.isDangerous THEN finish("allow", "")
               ELSE IF ~host.userInfo
                 THEN \* getMachineId throws inside the inner try
                      /\ pc' = "catch getMachineId"
                      /\ UNCHANGED <<out, supabaseClient, signedMachineId>>
                 ELSE /\ signedMachineId' =
                           IF config'.machineIdSecret # "none"
                             THEN getSignedMachineId(Fingerprint, config'.machineIdSecret, now)
                             ELSE UnsignedMachineId(Fingerprint)
                      /\ supabaseClient' = TRUE
                      /\ pc' = "insert"
                      /\ UNCHANGED out
  /\ UNCHANGED <<stdin, result, settled, resolved, timeoutId, channel, tty,
                 localResolved, notified, host, approval_requests, rate_limits, feed,
                 hookUpdates, env, cb, served, now, ticks, verification, masked>>

\* a createRequest that does not throw when the store reports an error
createRequest_IgnoringError ==
  /\ pc = "insert"
  /\ \E netOk \in BOOLEAN :
       LET row == [command |-> "masked", danger_reason |-> analysis.reason,
                   severity |-> analysis.severity, cwd |-> "cwd",
                   status |-> "pending", created_at |-> now,
                   resolved_at |-> NullTime, resolved_by |-> "null",
                   machine_id |-> signedMachineId]
       IN IF netOk /\ InsertPolicy(row) /\ R \notin DOMAIN approval_requests
            THEN /\ approval_requests' = (R :> row) @@ approval_requests
                 /\ pc' = "notify"
            ELSE /\ pc' = "notify"
                 /\ UNCHANGED approval_requests
  /\ UNCHANGED <<stdin, config, out, supabaseClient, result, settled, resolved, timeoutId,
                 channel, tty, localResolved, notified, host, signedMachineId,
                 rate_limits, feed, hookUpdates, env, cb, served, now, ticks, verification, analysis, masked>>

\* lib/supabase.ts createRequest: the insert, as the store answers it
createRequest ==
  /\ pc = "insert"
  /\ \E netOk \in BOOLEAN :
       LET row == [command |-> "masked", danger_reason |-> analysis.reason,
                   severity |-> analysis.severity, cwd |-> "cwd",
                   status |-> "pending", created_at |-> now,
                   resolved_at |-> NullTime, resolved_by |-> "null",
                   machine_id |-> signedMachineId]
       IN IF netOk /\ InsertPolicy(row) /\ R \notin DOMAIN approval_requests
            THEN /\ approval_requests' = (R :> row) @@ approval_requests
                 /\ pc' = "notify"
            ELSE /\ pc' = "catch createRequest"
                 /\ UNCHANGED approval_requests
  /\ UNCHANGED <<stdin, config, out, supabaseClient, result, settled, resolved, timeoutId,
                 channel, tty, localResolved, notified, host, signedMachineId,
                 rate_limits, feed, hookUpdates, env, cb, served, now, ticks, verification, analysis, masked>>

\* main, lines 295-330: sendNotification answers; on success
\* createLocalInputListener and listenForApproval start the three waits
sendNotification ==
  /\ pc = "notify"
  /\ \E ok \in BOOLEAN :
       IF ok
         THEN /\ notified' = TRUE
              /\ tty' = IF host.tty THEN "open" ELSE "unavailable"
              /\ channel' = "joining"
              /\ timeoutId' = "armed"
              /\ pc' = "race"
              /\ UNCHANGED out
         ELSE /\ out' = output(out, DefaultDecision(config), "Failed to send notification")
              /\ pc' = "shutdownN"
              /\ UNCHANGED <<notified, tty, channel, timeoutId>>
  /\ UNCHANGED <<stdin, config, supabaseClient, result, settled, resolved, localResolved,
                 host, signedMachineId, approval_requests, rate_limits, feed, hookUpdates,
                 env, cb, served, now, ticks, verification, analysis, masked>>

\* main, line 314: await shutdownSupabase() after the notification failed
shutdown_after_notify_failure ==
  /\ pc = "shutdownN"
  /\ \E ok \in BOOLEAN :
       IF ok
         THEN /\ supabaseClient' = FALSE
              /\ channel' = removeAllChannels(channel)
              /\ pc' = "done"
         ELSE /\ pc' = "catch shutdownSupabase"
              /\ UNCHANGED <<supabaseClient, channel>>
  /\ UNCHANGED <<stdin, config, out, result, settled, resolved, timeoutId, tty,
                 localResolved, notified, host, signedMachineId, approval_requests,
                 rate_limits, feed, hookUpdates, env, cb, served, now, ticks, verification, analysis, masked>>

\* main, lines 335-348: await shutdownSupabase(), then the decision
shutdown_after_race ==
  /\ pc = "shutdownR"
  /\ \E ok \in BOOLEAN :
       IF ok
         THEN /\ supabaseClient' = FALSE
              /\ channel' = removeAllChannels(channel)
              /\ feed' = {}
              /\ out' = VerdictOutput(out, config, result)
              /\ pc' = "done"
         ELSE /\ pc' = "catch shutdownSupabase"
              /\ UNCHANGED <<supabaseClient, channel, feed, out>>
  /\ UNCHANGED <<stdin, config, result, settled, resolved, timeoutId, tty, localResolved,
                 notified, host, signedMachineId, approval_requests, rate_limits,
                 hookUpdates, env, cb, served, now, ticks, verification, analysis, masked>>

\* main, lines 349-355: the inner catch, entered with the error thrown by
\* getMachineId, createRequest or shutdownSupabase
CatchPositions == {"catch getMachineId", "catch createRequest", "catch shutdownSupabase"}

main_catch ==
  /\ pc \in CatchPositions
  /\ \E ok \in BOOLEAN :
       IF ok /\ supabaseClient
         THEN /\ supabaseClient' = FALSE
              /\ channel' = removeAllChannels(channel)
              /\ feed' = {}
         ELSE UNCHANGED <<supabaseClient, channel, feed>>
  /\ out' = output(out, DefaultDecision(config), pc)
  /\ pc' = "done"
  /\ UNCHANGED <<stdin, config, result, settled, resolved, timeoutId, tty, localResolved,
                 notified, host, signedMachineId, approval_requests, rate_limits,
                 hookUpdates, env, cb, served, now, ticks, verification, analysis, masked>>

\* the realtime server acknowledges the subscription
channel_joined ==
  /\ channel = "joining"
  /\ channel' = "joined"
  /\ UNCHANGED <<pc, stdin, config, out, supabaseClient, result, settled, resolved,
                 timeoutId, tty, localResolved, notified, host, signedMachineId,
                 approval_requests, rate_limits, feed, hookUpdates, env, cb, served, now, ticks, verification, analysis, masked>>

\* a change callback that resolves on every event, whatever its status
listen_change_AnyStatus ==
  /\ channel \in {"joined", "removed"}
  /\ \E newStatus \in feed :
       IF ~resolved
         THEN /\ resolved' = TRUE
              /\ timeoutId' = IF timeoutId = "armed" THEN "cleared" ELSE timeoutId
              /\ channel' = removeChannel(channel)
              /\ feed' = {}
              /\ Settle(newStatus, "remote")
         ELSE /\ feed' = feed \ {newStatus}
              /\ UNCHANGED <<resolved, timeoutId, channel, settled, result, pc, tty>>
  /\ UNCHANGED <<stdin, config, out, supabaseClient, localResolved, notified, host,
                 signedMachineId, approval_requests, rate_limits, hookUpdates, env, cb,
                 served, now, ticks, verification, analysis, masked>>

\* listenForApproval, lines 147-158: the postgres_changes callback, run with an
\* event in flight to the channel (an event received before removeChannel
\* took effect still runs it)
listen_change ==
  /\ channel \in {"joined", "removed"}
  /\ \E newStatus \in feed :
       IF newStatus # "pending" /\ ~resolved
         THEN /\ resolved' = TRUE
              /\ timeoutId' = IF timeoutId = "armed" THEN "cleared" ELSE timeoutId
              /\ channel' = removeChannel(channel)
              /\ feed' = {}
              /\ Settle(newStatus, "remote")
         ELSE /\ feed' = feed \ {newStatus}
              /\ UNCHANGED <<resolved, timeoutId, channel, settled, result, pc, tty>>
  /\ UNCHANGED <<stdin, config, out, supabaseClient, localResolved, notified, host,
                 signedMachineId, approval_requests, rate_limits, hookUpdates, env, cb,
                 served, now, ticks, verification, analysis, masked>>

\* listenForApproval, lines 163-167: the deadline timer fires; when the
\* module's client is already null getSupabaseClient throws, the error is
\* logged and onResolved('timeout') is called at once
timer_fire ==
  /\ timeoutId = "armed"
  /\ IF resolved
       THEN /\ timeoutId' = "fired"
            /\ UNCHANGED <<resolved, channel, feed, settled, result, pc, tty, hookUpdates>>
       ELSE /\ resolved' = TRUE
            /\ channel' = removeChannel(channel)
            /\ feed' = {}
            /\ IF supabaseClient
                 THEN /\ timeoutId' = "updating"
                      /\ UNCHANGED <<settled, result, pc, tty, hookUpdates>>
                 ELSE /\ timeoutId' = "fired"
                      /\ hookUpdates' = Append(hookUpdates,
                                                [outcome |-> "not sent", before |-> RowStatus(approval_requests, R)])
                      /\ Settle("timeout", "remote")
  /\ UNCHANGED <<stdin, config, out, supabaseClient, localResolved, notified, host,
                 signedMachineId, approval_requests, rate_limits, env, cb, served, now, ticks, verification, analysis, masked>>

\* lib/supabase.ts updateRequestStatus(requestId, 'timeout') as the store
\* answers it, then lines 171-176: log the error, onResolved('timeout')
updateRequestStatus ==
  /\ timeoutId = "updating"
  /\ \E netOk \in BOOLEAN :
       LET applied == netOk /\ UpdatePolicy("anon") /\ R \in DOMAIN approval_requests
       IN /\ approval_requests' =
               IF applied
                 THEN [approval_requests EXCEPT ![R].status = "timeout",
                                                ![R].resolved_at = now]
                 ELSE approval_requests
          /\ hookUpdates' = Append(hookUpdates,
                                    [outcome |-> IF ~netOk THEN "error"
                                                 ELSE IF applied THEN "applied"
                                                 ELSE "denied",
                                     before |-> RowStatus(approval_requests, R)])
  /\ timeoutId' = "fired"
  /\ Settle("timeout", "remote")
  /\ UNCHANGED <<stdin, config, out, supabaseClient, resolved, channel, localResolved,
                 notified, host, signedMachineId, rate_limits, feed, env, cb, served, now, ticks, verification, analysis, masked>>

\* createLocalInputListener, lines 171-183: rl.on('line')
Answers == {"y", "n", "other"}

tty_line ==
  /\ tty = "open"
  /\ \E answer \in Answers :
       IF localResolved \/ answer = "other"
         THEN UNCHANGED <<localResolved, settled, result, pc, tty>>
         ELSE /\ localResolved' = TRUE
              /\ Settle(IF answer = "y" THEN "approved" ELSE "rejected", "local")
  /\ UNCHANGED <<stdin, config, out, supabaseClient, resolved, timeoutId, channel,
                 notified, host, signedMachineId, approval_requests, rate_limits, feed,
                 hookUpdates, env, cb, served, now, ticks, verification, analysis, masked>>

\* createLocalInputListener, lines 185-188: rl.once('error') -> cleanup()
tty_error ==
  /\ tty = "open"
  /\ tty' = LocalCleanup(tty)
  /\ UNCHANGED <<pc, stdin, config, out, supabaseClient, result, settled, resolved,
                 timeoutId, channel, localResolved, notified, host, signedMachineId,
                 approval_requests, rate_limits, feed, hookUpdates, env, cb, served, now, ticks, verification, analysis, masked>>

----------------------------------------------------------------------------
\* Webhook endpoints: supabase/functions/{slack,telegram,whatsapp}-callback

Providers == {"slack", "telegram", "whatsapp"}
Callbacks == 1 .. MaxCallbacks

\* resolved_by: the handle of the user whose callback instance c carries
User(c) == IF c = 1 THEN "user1" ELSE IF c = 2 THEN "user2" ELSE "user3"

NoRequest == [method |-> "none", cred |-> "none", ts |-> NullTime, payload |-> "none",
              rid |-> "none", action |-> "none", ip |-> "none"]

IdleCallback == [pc |-> "idle", req |-> NoRequest, resp |-> 0,
                 affected |-> 0 - 1, updateError |-> FALSE, receivedAt |-> NullTime,
                 authAt |-> NullTime, fetchedAt |-> NullTime]

\* what the provider sends when the approver presses a button (or replies)
\* of the notification for request R at time t
AuthenticRequests(provider, t) ==
  { [method |-> "POST", cred |-> "good",
     ts |-> IF provider = "slack" THEN t ELSE NullTime,
     payload |-> "ok", rid |-> R, action |-> a, ip |-> "ip1"] : a \in {"approve", "reject"} }

\* Slack signs its timestamp header; a replayed request carries an old one
SlackOffsets == {0, SlackReplayWindow, SlackReplayWindow + 1, 0 - (SlackReplayWindow + 1)}

\* the (payload, request id, action) an endpoint can be sent; the id of
\* request R is known only to who has seen the notification
Payloads(knowsR) ==
  { [payload |-> "ok", rid |-> id, action |-> a] :
      id \in IF knowsR THEN {R, "X"} ELSE {"X"}, a \in {"approve", "reject"} }
  \cup { [payload |-> pl, rid |-> "X", action |-> "approve"] :
           pl \in {"unparsable", "missing", "wrongType", "badId"} }

\* the credentials a request can carry: none, wrong ones, or the provider's
\* (for Slack with the timestamp the provider signed)
Credentials(provider, t) ==
  { [cred |-> cr, ts |-> IF provider = "slack" THEN t ELSE NullTime] : cr \in {"none", "bad"} }
  \cup { [cred |-> "good", ts |-> IF provider = "slack" THEN t - d ELSE NullTime] :
           d \in SlackOffsets }

\* every request an endpoint can receive at time t
AllRequests(provider, t, knowsR) ==
  { [method |-> "POST", cred |-> cr.cred, ts |-> cr.ts, payload |-> pl.payload,
     rid |-> pl.rid, action |-> pl.action, ip |-> "ip1"] :
      cr \in Credentials(provider, t), pl \in Payloads(knowsR) }
  \cup { [method |-> "GET", cred |-> cr, ts |-> IF provider = "slack" THEN t ELSE NullTime,
          payload |-> "ok", rid |-> "X", action |-> "approve", ip |-> "ip1"] :
           cr \in {"none", "good"} }

getClientIP(req) == req.ip

\* checkRateLimit: count of the identifier's events with created_at >= now - 60 s
RateCount(rl, identifier, t) ==
  Cardinality({ i \in DOMAIN rl[identifier] : rl[identifier][i] >= t - windowSeconds })

\* signedId.split(':')
RECURSIVE split(_)
split(str) ==
  IF str = <<>> THEN << <<>> >>
  ELSE LET rest == split(Tail(str))
       IN  IF Head(str).k = ":" THEN << <<>> >> \o rest
           ELSE << <<Head(str)>> \o rest[1] >> \o Tail(rest)

\* /^[a-f0-9]{32}$/i.test(signedId)
isValidFormat(signedId) == Len(signedId) = 1 /\ signedId[1].k = "hex"

NullMachineId == <<>>

\* verifySignedMachineId(signedId, maxAgeSeconds = 600) under MACHINE_ID_SECRET
verifySignedMachineId(signedId, secret, t) ==
  LET parts == split(signedId)
      timestamp == parseInt(parts[2])
  IN  IF signedId = <<>> THEN [valid |-> FALSE, machineId |-> NullMachineId]
      ELSE IF secret = "none"
        THEN [valid |-> isValidFormat(signedId),
              machineId |-> IF isValidFormat(signedId) THEN signedId ELSE NullMachineId]
      ELSE IF Len(parts) # 3 THEN [valid |-> FALSE, machineId |-> NullMachineId]
      \* a comparison with NaN is false
      ELSE IF ~timestamp.nan /\ t - timestamp.value > maxAgeSeconds
        THEN [valid |-> FALSE, machineId |-> NullMachineId]
      ELSE IF parts[3] # <<Hmac16(secret, parts[1] \o <<Colon>> \o parts[2])>>
        THEN [valid |-> FALSE, machineId |-> NullMachineId]
      ELSE [valid |-> TRUE, machineId |-> parts[1]]

\* isRequestExpired(createdAt)
isRequestExpired(createdAt, t) == t - createdAt > MAX_REQUEST_AGE_SECONDS

\* twimlResponse(message): status 200
twimlResponse == 200

\* the catch of each handler
InternalError(provider) == IF provider = "whatsapp" THEN twimlResponse ELSE 500

\* an authentication that checks the signature and not its timestamp
ProviderAuthenticated_NoReplayWindow(provider, req, t) == req.cred = "good"

\* provider authentication: Slack signature headers, replay window and
\* signature; Telegram secret-token header; Twilio signature header
ProviderAuthenticated(provider, req, t) ==
  /\ req.cred = "good"
  /\ provider = "slack" =>
       ~((IF t - req.ts >= 0 THEN t - req.ts ELSE req.ts - t) > SlackReplayWindow)

\* the handler from the provider-secret check to the parsed (action, requestId):
\* the response it returns, 0 when it goes on to fetch the row
AuthAndParse(provider, e, req, t) ==
  IF ~e.PROVIDER_SECRET THEN 500
  ELSE IF provider = "whatsapp" /\ req.payload = "unparsable" THEN InternalError(provider)
  ELSE IF ~ProviderAuthenticated(provider, req, t) THEN 401
  ELSE IF req.payload = "unparsable" THEN InternalError(provider)
  ELSE IF req.payload = "missing"
    THEN (IF provider = "slack" THEN 400 ELSE IF provider = "telegram" THEN 200
          ELSE twimlResponse)
  ELSE IF req.payload \in {"wrongType", "badId"}
    THEN (IF provider = "whatsapp" THEN twimlResponse ELSE 400)
  ELSE 0

AfterAuthAndParse(c, req, t) ==
  LET resp == AuthAndParse(env.provider, env, req, t)
  IN [c EXCEPT !.pc = IF resp = 0 THEN "fetch" ELSE "done", !.resp = resp, !.authAt = t]

\* serve handler, first part: method gate, store environment, rate-limit count;
\* handler instances are numbered in the order the requests arrive;
\* queryError: the count query on rate_limits answered with an error
CbReceive(c, req, queryError) ==
  /\ cb[c].pc = "idle"
  /\ \A d \in Callbacks : d < c => cb[d].pc # "idle"
  /\ LET identifier == getClientIP(req)
         started == [cb[c] EXCEPT !.req = req, !.receivedAt = now]
         answer(status) == [started EXCEPT !.pc = "done", !.resp = status]
     IN   cb' = [cb EXCEPT ![c] =
                  IF req.method # "POST" THEN answer(405)
                  ELSE IF ~env.SUPABASE
                    THEN answer(IF env.provider = "whatsapp" THEN twimlResponse ELSE 500)
                  ELSE IF queryError THEN AfterAuthAndParse(started, req, now)
                  ELSE IF RateCount(rate_limits, identifier, now) >= maxRequests
                    THEN answer(429)
                  ELSE [started EXCEPT !.pc = "rate"]]
  /\ served' = served + 1
  /\ UNCHANGED <<pc, stdin, config, out, supabaseClient, result, settled, resolved,
                 timeoutId, channel, tty, localResolved, notified, host, signedMachineId,
                 approval_requests, rate_limits, feed, hookUpdates, env, now, ticks, verification, analysis, masked>>

\* a handler that records the event only of a request that passed provider
\* authentication
CbRateInsert_AfterAuthentication(c) ==
  /\ cb[c].pc = "rate"
  /\ LET identifier == getClientIP(cb[c].req)
     IN rate_limits' =
          IF AuthAndParse(env.provider, env, cb[c].req, now) = 401 THEN rate_limits
          ELSE [rate_limits EXCEPT ![identifier] = Append(@, now)]
  /\ cb' = [cb EXCEPT ![c] = AfterAuthAndParse(cb[c], cb[c].req, now)]
  /\ UNCHANGED <<pc, stdin, config, out, supabaseClient, result, settled, resolved,
                 timeoutId, channel, tty, localResolved, notified, host, signedMachineId,
                 approval_requests, feed, hookUpdates, env, served, now, ticks, verification, analysis, masked>>

\* checkRateLimit, second part: record the event; then provider
\* authentication and payload parse
CbRateInsert(c) ==
  /\ cb[c].pc = "rate"
  /\ LET identifier == getClientIP(cb[c].req)
     IN rate_limits' = [rate_limits EXCEPT ![identifier] = Append(@, now)]
  /\ cb' = [cb EXCEPT ![c] = AfterAuthAndParse(cb[c], cb[c].req, now)]
  /\ UNCHANGED <<pc, stdin, config, out, supabaseClient, result, settled, resolved,
                 timeoutId, channel, tty, localResolved, notified, host, signedMachineId,
                 approval_requests, feed, hookUpdates, env, served, now, ticks, verification, analysis, masked>>

\* a handler that goes from the freshness guard straight to the update
FetchResponse_NoIdentityCheck(provider, e, rows, id, t) ==
  IF id \notin DOMAIN rows
    THEN (IF provider = "whatsapp" THEN twimlResponse ELSE 404)
  ELSE IF rows[id].status # "pending"
    THEN (IF provider = "slack" THEN 404 ELSE IF provider = "telegram" THEN 200
          ELSE twimlResponse)
  ELSE IF provider = "telegram" /\ isRequestExpired(rows[id].created_at, t) THEN 410
  ELSE IF provider = "whatsapp" /\ isRequestExpired(rows[id].created_at, t) THEN twimlResponse
  ELSE 0

\* the response to the fetched row: not found, already resolved, expired,
\* machine-identity check; 0 when the handler goes on to the update
FetchResponse(provider, e, rows, id, t) ==
  IF id \notin DOMAIN rows
    THEN (IF provider = "whatsapp" THEN twimlResponse ELSE 404)
  ELSE IF rows[id].status # "pending"
    THEN (IF provider = "slack" THEN 404 ELSE IF provider = "telegram" THEN 200
          ELSE twimlResponse)
  ELSE IF provider = "telegram" /\ isRequestExpired(rows[id].created_at, t) THEN 410
  ELSE IF provider = "whatsapp" /\ isRequestExpired(rows[id].created_at, t) THEN twimlResponse
  ELSE IF e.MACHINE_ID_SECRET # "none"
          /\ ~verifySignedMachineId(rows[id].machine_id, e.MACHINE_ID_SECRET, t).valid
    THEN 403
  ELSE 0

\* serve handler: select the row, freshness, machine-identity check
CbFetch(c) ==
  /\ cb[c].pc = "fetch"
  /\ LET resp == FetchResponse(env.provider, env, approval_requests, cb[c].req.rid, now)
     IN cb' = [cb EXCEPT ![c].pc = IF resp = 0 THEN "update" ELSE "done",
                         ![c].resp = resp,
                         ![c].fetchedAt = now]
  /\ UNCHANGED <<pc, stdin, config, out, supabaseClient, result, settled, resolved,
                 timeoutId, channel, tty, localResolved, notified, host, signedMachineId,
                 approval_requests, rate_limits, feed, hookUpdates, env, served, now, ticks, verification, analysis, masked>>

\* an update filtered by id alone
UpdateMatches_ByIdOnly(rows, id) == id \in DOMAIN rows

\* .update({...}).eq('id', requestId).eq('status', 'pending'): the rows it affects
UpdateMatches(rows, id) == id \in DOMAIN rows /\ rows[id].status = "pending"

\* an update that sets the status alone
CallbackUpdate_StatusOnly(row, status, t, resolvedBy) == [row EXCEPT !.status = status]

\* an update that also writes the row's creation time and machine identifier
CallbackUpdate_WholeRow(row, status, t, resolvedBy) ==
  [row EXCEPT !.status = status, !.resolved_at = t, !.resolved_by = resolvedBy,
              !.created_at = t, !.machine_id = <<>>]

\* .update({ status, resolved_at: new Date().toISOString(), resolved_by: resolvedBy })
CallbackUpdate(row, status, t, resolvedBy) ==
  [row EXCEPT !.status = status, !.resolved_at = t, !.resolved_by = resolvedBy]

\* the response when the update affected no row
NoRowResponse(provider) ==
  IF provider = "slack" THEN 409 ELSE IF provider = "telegram" THEN 200 ELSE twimlResponse

\* serve handler: the transition, made with the service-role key
CbUpdate(c) ==
  /\ cb[c].pc = "update"
  /\ \E netOk \in BOOLEAN :
       LET id == cb[c].req.rid
           status == IF cb[c].req.action = "approve" THEN "approved" ELSE "rejected"
           hit == netOk /\ UpdatePolicy("service_role") /\ UpdateMatches(approval_requests, id)
       IN /\ approval_requests' =
               IF hit THEN [approval_requests EXCEPT
                              ![id] = CallbackUpdate(@, status, now, User(c))]
               ELSE approval_requests
          /\ feed' = IF hit THEN Publish(feed, channel, status) ELSE feed
          /\ cb' = [cb EXCEPT ![c].pc = "done",
                              ![c].affected = IF hit THEN 1 ELSE 0,
                              ![c].updateError = ~netOk,
                              ![c].resp = IF ~netOk THEN InternalError(env.provider)
                                          ELSE IF hit THEN 200
                                          ELSE NoRowResponse(env.provider)]
  /\ UNCHANGED <<pc, stdin, config, out, supabaseClient, result, settled, resolved,
                 timeoutId, channel, tty, localResolved, notified, host, signedMachineId,
                 rate_limits, hookUpdates, env, served, now, ticks, verification, analysis, masked>>

\* the instance has answered; the endpoint serves the next request
CbRetire(c) ==
  /\ cb[c].pc = "done"
  /\ cb' = [cb EXCEPT ![c] = IdleCallback]
  /\ UNCHANGED <<pc, stdin, config, out, supabaseClient, result, settled, resolved,
                 timeoutId, channel, tty, localResolved, notified, host, signedMachineId,
                 approval_requests, rate_limits, feed, hookUpdates, env, served, now, ticks, verification, analysis, masked>>

\* a second passes
Tick ==
  /\ ticks < MaxTicks
  /\ now' = now + 1
  /\ ticks' = ticks + 1
  /\ UNCHANGED <<pc, stdin, config, out, supabaseClient, result, settled, resolved,
                 timeoutId, channel, tty, localResolved, notified, host, signedMachineId,
                 approval_requests, rate_limits, feed, hookUpdates, env, cb, served, verification, analysis, masked>>

----------------------------------------------------------------------------
\* Specifications

\* tool_input.command is absent
NoCommand == ""

HookCommands == {"ls -la", "ls; rm -rf /", "rm -rf /"}

Stdins ==
  { [kind |-> k, command |-> NoCommand] :
      k \in {"empty", "invalid", "null", "nonBash", "noToolInput", "noCommand"} }
  \cup { [kind |-> "command", command |-> cmd] : cmd \in HookCommands }

\* a configuration file written by init
ConfigFile(d, t, s, v) ==
  [kind |-> "current", hmac |-> "good", decrypts |-> TRUE, services |-> TRUE,
   defaultAction |-> d, timeoutSeconds |-> t, machineIdSecret |-> s,
   customPatternsValid |-> v, customPatterns |-> <<>>, whitelist |-> <<>>]

ConfigFiles ==
  {NoConfigFile}
  \cup { ConfigFile(d, 10, s, v) :
           d \in {"allow", "deny"}, s \in {"none", "S1"}, v \in BOOLEAN }

\* a host the hook has not run on: of concern are the webhook endpoints
NoHost == [userInfo |-> TRUE, tty |-> FALSE, configFile |-> NoConfigFile,
           processEnv |-> NoProcessEnv]

Hosts ==
  { [userInfo |-> u, tty |-> t, configFile |-> f, processEnv |-> NoProcessEnv] :
      u \in BOOLEAN, t \in BOOLEAN, f \in ConfigFiles }

EmptyStore == [id \in {} |-> 0]
NoRateLimits == [identifier \in {"ip1"} |-> <<>>]

\* no identifier has been verified
NoVerification ==
  [stage |-> "none", signedId |-> <<>>, machineId |-> NullMachineId, signedAt |-> NullTime,
   verifiedAt |-> NullTime, result |-> [valid |-> FALSE, machineId |-> NullMachineId]]

InitCommon ==
  /\ masked = <<>>
  /\ verification = NoVerification
  /\ analysis = NoAnalysis
  /\ out = <<>>
  /\ supabaseClient = FALSE
  /\ result = NoResult
  /\ settled = <<>>
  /\ resolved = FALSE
  /\ timeoutId = "unset"
  /\ channel = "none"
  /\ tty = "unopened"
  /\ localResolved = FALSE
  /\ signedMachineId = UnsignedMachineId(Fingerprint)
  /\ rate_limits = NoRateLimits
  /\ feed = {}
  /\ hookUpdates = <<>>
  /\ cb = [c \in Callbacks |-> IdleCallback]
  /\ served = 0
  /\ ticks = 0

\* one hook invocation; the endpoint of the configured messenger is deployed
\* with all its secrets
Init ==
  /\ InitCommon
  /\ pc = "start"
  /\ now = 0
  /\ stdin \in Stdins
  /\ config = NoConfig
  /\ host \in Hosts
  /\ notified = FALSE
  /\ approval_requests = EmptyStore
  /\ env \in { [provider |-> p, SUPABASE |-> TRUE, PROVIDER_SECRET |-> TRUE,
                MACHINE_ID_SECRET |-> "S1"] : p \in Providers }

HookNext ==
  \/ main_start
  \/ createRequest
  \/ sendNotification
  \/ shutdown_after_notify_failure
  \/ shutdown_after_race
  \/ main_catch
  \/ channel_joined
  \/ listen_change
  \/ timer_fire
  \/ updateRequestStatus
  \/ tty_line
  \/ tty_error

Next ==
  \/ HookNext
  \/ \E c \in Callbacks : \E req \in AuthenticRequests(env.provider, now) :
       notified /\ CbReceive(c, req, FALSE)
  \/ \E c \in Callbacks : CbRateInsert(c)
  \/ \E c \in Callbacks : CbFetch(c)
  \/ \E c \in Callbacks : CbUpdate(c)

Spec == Init /\ [][Next]_vars

\* the hook with its event loop: a subscription being joined is acknowledged,
\* a delivered change event runs the postgres_changes callback, and main
\* resumes after its awaits. The deadline is as far away as
\* rules.timeoutSeconds says (no upper limit, validateConfig): nothing obliges
\* it to come, nor the approver or the operator at the TTY to act
Fairness ==
  /\ WF_vars(channel_joined)
  /\ WF_vars(listen_change)
  /\ WF_vars(shutdown_after_race)
  /\ WF_vars(main_catch)

SpecFair == Init /\ [][Next]_vars /\ Fairness

\* the hook when its deadline comes: the timer armed by setTimeout fires. The
\* store's answer to the timeout update is awaited without a time limit
\* (updateRequestStatus): nothing obliges it to arrive
SpecDeadline == Init /\ [][Next]_vars /\ Fairness /\ WF_vars(timer_fire)

\* the endpoints alone: the row of request R was inserted at time 0 by a hook
\* without a secret, with the endpoint's secret or with another secret, and
\* the first request arrives at one of StartTimes; requests are served one
\* after the other
StartTimes == {0, maxAgeSeconds, MAX_REQUEST_AGE_SECONDS}

StoredRow(m) ==
  [command |-> "masked", danger_reason |-> "builtin", severity |-> "critical",
   cwd |-> "cwd", status |-> "pending", created_at |-> 0, resolved_at |-> NullTime,
   resolved_by |-> "null", machine_id |-> m]

StoredMachineIds ==
  { UnsignedMachineId(Fingerprint),
    getSignedMachineId(Fingerprint, "S1", 0),
    getSignedMachineId(Fingerprint, "S2", 0) }

InitWebhook ==
  /\ InitCommon
  /\ pc = "off"
  /\ stdin = [kind |-> "command", command |-> NoCommand]
  /\ config = NoConfig
  /\ host = NoHost
  /\ now \in StartTimes
  /\ \/ /\ approval_requests = EmptyStore
        /\ notified = FALSE
     \/ /\ \E m \in StoredMachineIds : approval_requests = (R :> StoredRow(m))
        /\ notified = TRUE
  /\ env \in { [provider |-> p, SUPABASE |-> e[1], PROVIDER_SECRET |-> e[2],
                MACHINE_ID_SECRET |-> m] :
                 p \in Providers, e \in {<<TRUE, TRUE>>, <<FALSE, TRUE>>, <<TRUE, FALSE>>},
                 m \in {"none", "S1"} }

NextWebhook ==
  \/ \E req \in AllRequests(env.provider, now, notified) :
       /\ served < MaxRequests
       /\ \E queryError \in BOOLEAN : CbReceive(1, req, queryError)
  \/ \E c \in Callbacks : CbRateInsert(c)
  \/ \E c \in Callbacks : CbFetch(c)
  \/ \E c \in Callbacks : CbUpdate(c)
  \/ \E c \in Callbacks : CbRetire(c)
  \/ Tick

SpecWebhook == InitWebhook /\ [][NextWebhook]_vars

\* the rate limiter under concurrent requests: one caller has sent earlier
\* requests at time 0, recorded in rate_limits, and authentic callbacks for
\* the pending row R now arrive at concurrently running handler instances
EarlierRequests == {maxRequests - 1, maxRequests}

ArrivalTimes == {0, windowSeconds, windowSeconds + 1}

InitRateLimit ==
  /\ masked = <<>>
  /\ verification = NoVerification
  /\ analysis = NoAnalysis
  /\ out = <<>>
  /\ supabaseClient = FALSE
  /\ result = NoResult
  /\ settled = <<>>
  /\ resolved = FALSE
  /\ timeoutId = "unset"
  /\ channel = "none"
  /\ tty = "unopened"
  /\ localResolved = FALSE
  /\ signedMachineId = UnsignedMachineId(Fingerprint)
  /\ feed = {}
  /\ hookUpdates = <<>>
  /\ cb = [c \in Callbacks |-> IdleCallback]
  /\ served = 0
  /\ ticks = 0
  /\ pc = "off"
  /\ stdin = [kind |-> "command", command |-> NoCommand]
  /\ config = NoConfig
  /\ host = NoHost
  /\ notified = TRUE
  /\ approval_requests = (R :> StoredRow(UnsignedMachineId(Fingerprint)))
  /\ now \in ArrivalTimes
  /\ \E n \in EarlierRequests : rate_limits = [identifier \in {"ip1"} |-> [i \in 1 .. n |-> 0]]
  /\ env \in { [provider |-> p, SUPABASE |-> TRUE, PROVIDER_SECRET |-> TRUE,
                MACHINE_ID_SECRET |-> "none"] : p \in Providers }

NextRateLimit ==
  \/ \E c \in Callbacks : \E req \in AuthenticRequests(env.provider, now) :
       CbReceive(c, req, FALSE)
  \/ \E c \in Callbacks : CbRateInsert(c)
  \/ \E c \in Callbacks : CbFetch(c)
  \/ \E c \in Callbacks : CbUpdate(c)
  \/ Tick

SpecRateLimit == InitRateLimit /\ [][NextRateLimit]_vars

\* the rate limiter's budget: the caller's requests, with and without the
\* provider's credential, arrive at the endpoint after the earlier ones; the
\* store answers the count query
UnauthenticRequests(provider, t) ==
  { [method |-> "POST", cred |-> cr, ts |-> IF provider = "slack" THEN t ELSE NullTime,
     payload |-> "ok", rid |-> R, action |-> "approve", ip |-> "ip1"] :
      cr \in {"none", "bad"} }

InitBudget == InitRateLimit /\ now = 0

NextBudget ==
  \/ \E c \in Callbacks :
       \E req \in AuthenticRequests(env.provider, now) \cup UnauthenticRequests(env.provider, now) :
         CbReceive(c, req, FALSE)
  \/ \E c \in Callbacks : CbRateInsert(c)
  \/ \E c \in Callbacks : CbFetch(c)
  \/ \E c \in Callbacks : CbUpdate(c)
  \/ Tick

SpecBudget == InitBudget /\ [][NextBudget]_vars

\* ---- the rule engine on the configurations a user can write ----

\* rules.customPatterns entries, compiled
CustomPatterns ==
  { [source |-> "\\bmy-dangerous-cmd\\b", matches |-> {"my-dangerous-cmd --flag"},
     severity |-> "critical", reason |-> "Custom dangerous command"],
    [source |-> "\\brm\\b", matches |-> {"ls; rm -rf /", "rm -rf /", "sudo rm -rf /"},
     severity |-> "low", reason |-> "Custom rm"],
    [source |-> "deploy", matches |-> {"npm run deploy"},
     severity |-> "medium", reason |-> "Custom deploy"] }

\* rules.whitelist entries
WhitelistEntries == { "^npm\\s+run\\s+deploy$", "\\brm\\b", "(" }

SeqsUpTo(S, n) == UNION { [1 .. k -> S] : k \in 0 .. n }

InitRules ==
  /\ InitCommon
  /\ pc = "start"
  /\ now = 0
  /\ stdin \in { [kind |-> "command", command |-> command] : command \in Commands }
  /\ config = NoConfig
  /\ host \in { [NoHost EXCEPT !.configFile =
                              [ConfigFile("deny", 10, "none", TRUE) EXCEPT
                                 !.customPatterns = cp, !.whitelist = wl]] :
                  cp \in SeqsUpTo(CustomPatterns, MaxPatterns),
                  wl \in SeqsUpTo(WhitelistEntries, MaxPatterns) }
  /\ notified = FALSE
  /\ approval_requests = EmptyStore
  /\ env = [provider |-> "slack", SUPABASE |-> TRUE, PROVIDER_SECRET |-> TRUE,
            MACHINE_ID_SECRET |-> "none"]

NextRules ==
  \/ main_start
  \/ createRequest

SpecRules == InitRules /\ [][NextRules]_vars

\* ---- the hook under the configuration files and environments of a host ----

\* rules.timeoutSeconds values a file may hold
FileTimeouts == {5, 10, 300}

\* files loadConfig refuses to read, legacy files, files written by init with
\* every rules value, and files with one defect
ConfigFileVariants ==
  { [NoConfigFile EXCEPT !.kind = k] : k \in {"missing", "symlink", "unreadable"} }
  \cup { [ConfigFile(d, t, "none", TRUE) EXCEPT !.kind = "legacy", !.hmac = "absent"] :
           d \in {"allow", "deny"}, t \in FileTimeouts }
  \cup { ConfigFile(d, t, "S1", TRUE) : d \in {"allow", "deny", "ask"}, t \in FileTimeouts }
  \cup { [ConfigFile("deny", 10, "S1", TRUE) EXCEPT !.hmac = "bad"],
         [ConfigFile("deny", 10, "S1", TRUE) EXCEPT !.hmac = "absent"],
         [ConfigFile("deny", 10, "S1", TRUE) EXCEPT !.decrypts = FALSE],
         [ConfigFile("deny", 10, "S1", TRUE) EXCEPT !.services = FALSE] }

\* values of CLAUDE_GUARD_TIMEOUT_SECONDS: unset, "9", "59", "60", "600", "x", "60x"
TimeoutEnvValues ==
  { Unset, EnvValue(String(9)), EnvValue(String(59)), EnvValue(String(60)),
    EnvValue(String(600)), EnvValue(<<Letter>>), EnvValue(String(60) \o <<Letter>>) }

ProcessEnvs ==
  { [CLAUDE_GUARD_DEFAULT_ACTION |-> a, CLAUDE_GUARD_TIMEOUT_SECONDS |-> t] :
      a \in {"unset", "allow", "deny", "ALLOW"}, t \in TimeoutEnvValues }

InitConfig ==
  /\ InitCommon
  /\ pc = "start"
  /\ now = 0
  /\ stdin \in { [kind |-> "command", command |-> command] :
                   command \in {"ls -la", "rm -rf /"} }
  /\ config = NoConfig
  /\ host \in { [userInfo |-> TRUE, tty |-> TRUE, configFile |-> f, processEnv |-> e] :
                  f \in ConfigFileVariants, e \in ProcessEnvs }
  /\ notified = FALSE
  /\ approval_requests = EmptyStore
  /\ env = [provider |-> "slack", SUPABASE |-> TRUE, PROVIDER_SECRET |-> TRUE,
            MACHINE_ID_SECRET |-> "S1"]

\* the hook alone: nobody answers the notification
NextConfig ==
  \/ main_start
  \/ createRequest
  \/ sendNotification
  \/ shutdown_after_notify_failure
  \/ shutdown_after_race
  \/ main_catch
  \/ channel_joined
  \/ timer_fire
  \/ updateRequestStatus
  \/ tty_line
  \/ tty_error

SpecConfig == InitConfig /\ [][NextConfig]_vars

\* ---- one listenForApproval call under at-least-once delivery ----

\* (payload.new as ApprovalRequest).status of an UPDATE event
EventStatuses == {"pending", "approved", "rejected", "timeout"}

\* the realtime server delivers an UPDATE event of row R, a duplicate or a
\* repetition included; an event already on the wire arrives after
\* removeChannel
DeliverEvent(status) ==
  /\ channel \in {"joined", "removed"}
  /\ status \notin feed
  /\ feed' = feed \cup {status}
  /\ UNCHANGED <<pc, stdin, config, out, supabaseClient, result, settled, resolved,
                 timeoutId, channel, tty, localResolved, notified, host, signedMachineId,
                 approval_requests, rate_limits, hookUpdates, env, cb, served,
                 now, ticks, verification, analysis, masked>>

\* main has called listenForApprovalPromise for the notified request R; no
\* TTY is available
InitListen ==
  /\ masked = <<>>
  /\ verification = NoVerification
  /\ analysis = analyzeCommand("rm -rf /", <<>>, <<>>)
  /\ out = <<>>
  /\ supabaseClient = TRUE
  /\ result = NoResult
  /\ settled = <<>>
  /\ resolved = FALSE
  /\ timeoutId = "armed"
  /\ channel = "joining"
  /\ tty = "unavailable"
  /\ localResolved = FALSE
  /\ signedMachineId = UnsignedMachineId(Fingerprint)
  /\ rate_limits = NoRateLimits
  /\ feed = {}
  /\ hookUpdates = <<>>
  /\ cb = [c \in Callbacks |-> IdleCallback]
  /\ served = 0
  /\ ticks = 0
  /\ now = 0
  /\ pc = "race"
  /\ stdin = [kind |-> "command", command |-> "rm -rf /"]
  /\ \E d \in {"allow", "deny"} :
       /\ host = [userInfo |-> TRUE, tty |-> FALSE,
                  configFile |-> ConfigFile(d, 10, "none", TRUE),
                  processEnv |-> NoProcessEnv]
       /\ config = loadConfig(host.configFile, host.processEnv, TRUE)
  /\ notified = TRUE
  /\ approval_requests = (R :> StoredRow(UnsignedMachineId(Fingerprint)))
  /\ env = [provider |-> "slack", SUPABASE |-> TRUE, PROVIDER_SECRET |-> TRUE,
            MACHINE_ID_SECRET |-> "none"]

NextListen ==
  \/ channel_joined
  \/ \E status \in EventStatuses : DeliverEvent(status)
  \/ listen_change
  \/ timer_fire
  \/ updateRequestStatus
  \/ shutdown_after_race
  \/ main_catch

SpecListen == InitListen /\ [][NextListen]_vars

\* ---- the secret masker on the texts of a command ----

\* the pieces a text is drawn from
Pieces ==
  { "://", ":", "@", "'", " ", "Authorization", "?token=", "API_KEY=", "Basic", "b64" }

Texts == UNION { [1 .. n -> Pieces] : n \in 0 .. MaxLen }

\* let masked = text
TakeText ==
  /\ masked = <<>>
  /\ \E text \in Texts : masked' = <<text>>
  /\ UNCHANGED <<pc, stdin, config, out, supabaseClient, result, settled, resolved,
                 timeoutId, channel, tty, localResolved, notified, host, signedMachineId,
                 approval_requests, rate_limits, feed, hookUpdates, env, cb, served,
                 now, ticks, verification, analysis>>

\* the masker applied to the text, and then to its own results
Mask ==
  /\ masked # <<>>
  /\ Len(masked) <= MaxMaskings
  /\ masked' = Append(masked, maskSensitiveInfo(masked[Len(masked)]))
  /\ UNCHANGED <<pc, stdin, config, out, supabaseClient, result, settled, resolved,
                 timeoutId, channel, tty, localResolved, notified, host, signedMachineId,
                 approval_requests, rate_limits, feed, hookUpdates, env, cb, served,
                 now, ticks, verification, analysis>>

InitMask ==
  /\ InitCommon
  /\ pc = "off"
  /\ now = 0
  /\ stdin = [kind |-> "command", command |-> NoCommand]
  /\ config = NoConfig
  /\ host = NoHost
  /\ notified = FALSE
  /\ approval_requests = EmptyStore
  /\ env = [provider |-> "slack", SUPABASE |-> TRUE, PROVIDER_SECRET |-> TRUE,
            MACHINE_ID_SECRET |-> "none"]

NextMask ==
  \/ TakeText
  \/ Mask

SpecMask == InitMask /\ [][NextMask]_vars

\* ---- the signed machine identifier, from the hook to the endpoint ----

\* getMachineId(): 32 hexadecimal characters of a digest
Fingerprints == { <<HexDigest("host")>>, <<HexDigest("other host")>> }

\* Math.floor(Date.now() / 1000) at the hook: one to four decimal digits
SignTimes == {0, 7, 1000}

\* time between the hook's signature and the endpoint's verification
Delays == {1, maxAgeSeconds - 1, maxAgeSeconds}

\* main: const signedMachineId = getSignedMachineId(machineId, config.machineIdSecret)
SignMachineId(machineId) ==
  /\ verification.stage = "none"
  /\ config.machineIdSecret # "none"
  /\ signedMachineId' = getSignedMachineId(machineId, config.machineIdSecret, now)
  /\ verification' = [verification EXCEPT !.stage = "signed", !.machineId = machineId,
                                          !.signedAt = now]
  /\ UNCHANGED <<pc, stdin, config, out, supabaseClient, result, settled, resolved,
                 timeoutId, channel, tty, localResolved, notified, host,
                 approval_requests, rate_limits, feed, hookUpdates, env, cb, served,
                 now, ticks, analysis, masked>>

\* serve: const verification = await verifySignedMachineId(requestData.machine_id)
VerifyMachineId ==
  /\ verification.stage # "none"
  /\ verification' = [verification EXCEPT
                        !.stage = IF @ \in {"signed", "verified"} THEN "verified"
                                  ELSE "examined",
                        !.signedId = signedMachineId, !.verifiedAt = now,
                        !.result = verifySignedMachineId(signedMachineId,
                                                         env.MACHINE_ID_SECRET, now)]
  /\ UNCHANGED <<pc, stdin, config, out, supabaseClient, result, settled, resolved,
                 timeoutId, channel, tty, localResolved, notified, host, signedMachineId,
                 approval_requests, rate_limits, feed, hookUpdates, env, cb, served,
                 now, ticks, analysis, masked>>

\* timestamps a row's machine_id may carry at time t: the current second, the
\* last fresh second, a second of a clock that runs ahead, a timestamp with a
\* trailing letter, and one that is not a number
TimestampStrings(t) ==
  { String(t), String(t + MAX_REQUEST_AGE_SECONDS), String(t) \o <<Letter>>, <<Letter>> }

\* identifiers the anonymous insert policy lets into approval_requests.machine_id:
\* signed under either secret, with a tag made for another payload, with two
\* parts, and with four
Identifiers(t) ==
  UNION { { m \o <<Colon>> \o ts \o <<Colon>> \o <<Hmac16(s, m \o <<Colon>> \o ts)>>,
            m \o <<Colon>> \o ts \o <<Colon>> \o <<Hmac16(s, m \o <<Colon>> \o String(t + 1))>>,
            m \o <<Colon>> \o ts,
            m \o <<Colon>> \o ts \o <<Colon>> \o <<Hmac16(s, m \o <<Colon>> \o ts)>>
              \o <<Colon>> \o <<Letter>> } :
          m \in {Fingerprint}, ts \in TimestampStrings(t), s \in {"S1", "S2"} }

\* createRequest by any holder of the anon key: machine_id is what the caller sends
PresentMachineId(signedId) ==
  /\ verification.stage = "none"
  /\ InsertPolicy([StoredRow(signedId) EXCEPT !.created_at = now])
  /\ signedMachineId' = signedId
  /\ verification' = [verification EXCEPT !.stage = "presented", !.signedAt = now]
  /\ UNCHANGED <<pc, stdin, config, out, supabaseClient, result, settled, resolved,
                 timeoutId, channel, tty, localResolved, notified, host,
                 approval_requests, rate_limits, feed, hookUpdates, env, cb, served,
                 now, ticks, analysis, masked>>

\* time passes between the two
Elapse(d) ==
  /\ ticks < MaxTicks
  /\ now' = now + d
  /\ ticks' = ticks + 1
  /\ UNCHANGED <<pc, stdin, config, out, supabaseClient, result, settled, resolved,
                 timeoutId, channel, tty, localResolved, notified, host, signedMachineId,
                 approval_requests, rate_limits, feed, hookUpdates, env, cb, served,
                 verification, analysis, masked>>

InitIdentity ==
  /\ InitCommon
  /\ pc = "off"
  /\ stdin = [kind |-> "command", command |-> NoCommand]
  /\ host = NoHost
  /\ notified = FALSE
  /\ approval_requests = EmptyStore
  /\ now \in SignTimes
  /\ config \in { [loaded |-> TRUE, defaultAction |-> "deny", timeoutSeconds |-> 10,
                   machineIdSecret |-> s, customPatternsValid |-> TRUE,
                   customPatterns |-> <<>>, whitelist |-> <<>>] :
                    s \in {"S1", "S2"} }
  /\ env \in { [provider |-> "slack", SUPABASE |-> TRUE, PROVIDER_SECRET |-> TRUE,
                MACHINE_ID_SECRET |-> s] : s \in {"none", "S1", "S2"} }

NextIdentity ==
  \/ \E machineId \in Fingerprints : SignMachineId(machineId)
  \/ \E signedId \in Identifiers(now) : PresentMachineId(signedId)
  \/ VerifyMachineId
  \/ \E d \in Delays : Elapse(d)

SpecIdentity == InitIdentity /\ [][NextIdentity]_vars

----------------------------------------------------------------------------
\* Properties of the hook (Spec)

\* C1: every invocation of the hook writes exactly one decision object to
\* standard output: never two, and exactly one once main has returned,
\* whatever config load, insert, notification, race and store shutdown do.
C1_ExactlyOneDecision ==
  /\ Len(out) <= 1
  /\ pc = "done" => Len(out) = 1

\* C2: when the verdict that won the race is rejected the emitted decision is
\* deny, and when it is approved the emitted decision is allow, whatever
\* rules.defaultAction is.
C2_VerdictDecides ==
  (pc = "done" /\ result.status \in {"approved", "rejected"}) =>
    \A i \in DOMAIN out :
      out[i].decision = IF result.status = "approved" THEN "allow" ELSE "deny"

\* C3: for any interleaving of callbacks addressed to the same row, at most
\* one update affects the row; every other update affects zero rows.
C3_AtMostOneUpdate ==
  Cardinality({ c \in Callbacks : cb[c].affected = 1 }) <= 1

\* two callbacks of the Slack endpoint both fetched the row as pending and both
\* sent their update: one affected the row, the other affected no row (409)
C3_Witness ==
  \E c, d \in Callbacks :
    /\ c # d
    /\ env.provider = "slack"
    /\ cb[c].pc = "done" /\ cb[c].affected = 1 /\ cb[c].resp = 200
    /\ cb[d].pc = "done" /\ cb[d].affected = 0 /\ cb[d].resp = 409

C5_FirstResolverDecides ==
  (pc = "done" /\ Len(settled) > 0) =>
    \A i \in DOMAIN out :
      out[i].decision = IF settled[1].status = "approved" THEN "allow"
                        ELSE IF settled[1].status = "rejected" THEN "deny"
                        ELSE DefaultDecision(config)

\* C6: whichever wait wins, when the coordinator has emitted the decision for
\* the verdict the realtime subscription is closed, the TTY reader is closed
\* and the deadline timer is not left armed.
C6_LosersCancelled ==
  (pc = "done" /\ result.status # "none" /\ Len(out) = 1
     /\ out[1].reason \notin CatchPositions) =>
    /\ channel \notin {"joining", "joined"}
    /\ tty # "open"
    /\ timeoutId # "armed"

\* C10: an error the coordinator has no handling for (the store shutdown
\* failing, or an error caught by the outer catch) results in decision deny.
C10_UnhandledErrorDenies ==
  \A i \in DOMAIN out :
    out[i].reason \in {"catch shutdownSupabase", "Critical error"} =>
      out[i].decision = "deny"

----------------------------------------------------------------------------
\* Properties of the webhook endpoints (SpecWebhook)

C9_ExpiredRefused410 ==
  \A c \in Callbacks :
    LET id == cb[c].req.rid
        row == approval_requests[id]
        age == cb[c].fetchedAt - row.created_at
    IN (/\ cb[c].fetchedAt # NullTime
        /\ id \in DOMAIN approval_requests
        /\ row.status = "pending" \/ cb[c].affected = 1) =>
         /\ age > 3600 => (cb[c].pc = "done" /\ cb[c].resp = 410 /\ row.status = "pending")
         /\ age <= 3600 => cb[c].resp # 410

----------------------------------------------------------------------------
\* Further properties of the hook (Spec)

\* C11: when the insert of the request row fails, or the notification fails,
\* every emitted decision equals rules.defaultAction and carries a reason; on
\* insert failure no notification is sent and no wait is started.
C11_FailureFallsToDefault ==
  LET dangerous == /\ stdin.kind = "command"
                   /\ config.loaded /\ config.customPatternsValid
                   /\ ~MatchesAny(SAFE_PATTERNS, stdin.command)
                   /\ ~Whitelisted(config.whitelist, stdin.command)
                   /\ \/ MatchesAny(config.customPatterns, stdin.command)
                      \/ MatchesAny(DANGER_PATTERNS, stdin.command)
      insertFailed == dangerous /\ host.userInfo /\ R \notin DOMAIN approval_requests
      notificationFailed == dangerous /\ R \in DOMAIN approval_requests /\ ~notified
      default == IF config.defaultAction = "allow" THEN "allow" ELSE "deny"
  IN /\ (pc = "done" /\ (insertFailed \/ notificationFailed)) =>
          /\ Len(out) >= 1
          /\ \A i \in DOMAIN out : out[i].decision = default /\ out[i].reason # ""
     /\ (pc \in {"done", "catch createRequest"} /\ insertFailed) =>
          /\ ~notified
          /\ timeoutId = "unset" /\ channel = "none" /\ tty = "unopened"
          /\ settled = <<>>

\* the insert failed under defaultAction = allow and main returned
C11_Witness ==
  /\ pc = "done"
  /\ stdin.kind = "command" /\ stdin.command = "rm -rf /"
  /\ config.loaded /\ config.customPatternsValid /\ config.defaultAction = "allow"
  /\ host.userInfo
  /\ R \notin DOMAIN approval_requests
  /\ out = <<[decision |-> "allow", reason |-> "catch createRequest"]>>

\* C12: empty or syntactically invalid stdin yields deny; a well-formed event
\* whose tool_name is not Bash, or whose tool_input.command is absent, yields
\* allow.
C12_ParseInput ==
  /\ (pc = "done" /\ stdin.kind \in {"empty", "invalid"}) =>
       (Len(out) = 1 /\ out[1].decision = "deny")
  /\ (pc = "done" /\ stdin.kind \in {"nonBash", "noCommand"}) =>
       (Len(out) = 1 /\ out[1].decision = "allow")

\* main returned on an input that is not JSON
C12_Witness ==
  /\ pc = "done"
  /\ stdin.kind = "invalid"
  /\ out = <<[decision |-> "deny", reason |-> "Invalid JSON input"]>>

\* C13: for a Bash command the rule engine classifies as safe, the hook emits
\* allow, inserts no row and sends no notification.
C13_SafeCommandAllowed ==
  LET command == stdin.command
      safe == \/ MatchesAny(SAFE_PATTERNS, command)
              \/ Whitelisted(config.whitelist, command)
              \/ /\ ~MatchesAny(config.customPatterns, command)
                 /\ ~MatchesAny(DANGER_PATTERNS, command)
  IN (stdin.kind = "command" /\ config.customPatternsValid /\ safe) =>
       /\ approval_requests = EmptyStore
       /\ ~notified
       /\ pc \in {"start", "done"}
       /\ pc = "done" => out = <<[decision |-> "allow", reason |-> ""]>>

\* "ls; rm -rf /" matches the safe allowlist and a critical pattern: allowed
C13_Witness ==
  /\ pc = "done"
  /\ stdin.kind = "command" /\ stdin.command = "ls; rm -rf /"
  /\ config.loaded /\ config.customPatternsValid
  /\ out = <<[decision |-> "allow", reason |-> ""]>>
  /\ approval_requests = EmptyStore

\* C14: when the deadline fires before any verdict the coordinator marks the
\* row status = timeout in the store (whenever its update request reaches the
\* store), and the emitted decision is the configured default action whether
\* or not the update succeeds.
C14_DeadlineMarksTimeout ==
  (Len(settled) > 0 /\ settled[1] = [status |-> "timeout", source |-> "remote"]) =>
    /\ (hookUpdates # <<>> /\ hookUpdates[1].outcome \notin {"error", "not sent"}) =>
         approval_requests[R].status = "timeout"
    /\ pc = "done" =>
         \A i \in DOMAIN out :
           out[i].decision = IF config.defaultAction = "allow" THEN "allow" ELSE "deny"

C16_ValidResolution ==
  \A id \in DOMAIN approval_requests :
    approval_requests[id].status = "pending" <=>
      (approval_requests[id].resolved_at = NullTime
         /\ approval_requests[id].resolved_by = "null")

\* a callback resolved the row, and the hook sent its deadline update as well
C16_Witness ==
  /\ R \in DOMAIN approval_requests
  /\ approval_requests[R].status = "rejected"
  /\ approval_requests[R].resolved_at # NullTime
  /\ approval_requests[R].resolved_by # "null"
  /\ hookUpdates # <<>>

----------------------------------------------------------------------------
\* Further properties of the webhook endpoints

\* C17 (SpecWebhook): an authenticated callback for a row that is already
\* resolved is answered 200 and leaves the row unchanged, on every endpoint.
C17_AlreadyResolvedAnswered200 ==
  \A c \in Callbacks :
    LET id == cb[c].req.rid
    IN (/\ cb[c].pc = "done"
        /\ cb[c].fetchedAt # NullTime
        /\ id \in DOMAIN approval_requests
        /\ approval_requests[id].status # "pending") =>
         \/ cb[c].affected = 1
         \/ cb[c].affected = 0 - 1 /\ cb[c].resp = 200

\* C18 (Spec): of two concurrent authenticated callbacks, one approve and one
\* reject, that both read the row as pending and whose updates both reach the
\* store, exactly one transitions the row, the stored status and resolved_by
\* are the winner's, and the other affects zero rows and responds 409.
C18_ConcurrentCallbacks ==
  \A c, d \in Callbacks :
    (/\ c # d
     /\ cb[c].pc = "done" /\ cb[d].pc = "done"
     /\ cb[c].affected \in {0, 1} /\ cb[d].affected \in {0, 1}
     /\ ~cb[c].updateError /\ ~cb[d].updateError
     /\ cb[c].req.rid = cb[d].req.rid
     /\ cb[c].req.action # cb[d].req.action
     /\ cb[c].affected >= cb[d].affected) =>
       /\ cb[c].affected = 1 /\ cb[d].affected = 0
       /\ approval_requests[cb[c].req.rid].status =
            (IF cb[c].req.action = "approve" THEN "approved" ELSE "rejected")
       /\ approval_requests[cb[c].req.rid].resolved_by = User(c)
       /\ cb[d].resp = 409

\* C19 (SpecRateLimit): for one caller identifier, under any interleaving of
\* concurrent requests across handler instances, at most 30 requests pass the
\* rate limiter within a rolling 60 s window.
C19_AtMostThirtyPerWindow ==
  \A identifier \in DOMAIN rate_limits :
    \A i \in DOMAIN rate_limits[identifier] :
      Cardinality({ j \in DOMAIN rate_limits[identifier] :
                      /\ rate_limits[identifier][j] <= rate_limits[identifier][i]
                      /\ rate_limits[identifier][j] > rate_limits[identifier][i] - 60 }) <= 30

\* C20 (SpecIdentity): an identifier produced by getSignedMachineId(fingerprint, S)
\* at time t is accepted by verifySignedMachineId under the same secret S at any
\* time t + D with D <= 600 s, and the machine id it returns is the fingerprint
\* that was signed.
C20_RoundTrip ==
  ( /\ verification.stage = "verified"
    /\ env.MACHINE_ID_SECRET = config.machineIdSecret
    /\ verification.verifiedAt - verification.signedAt <= 600 )
  => ( /\ verification.result.valid
       /\ verification.result.machineId = verification.machineId )

\* an identifier signed at a time of four digits is verified exactly 600 s
\* later under the same secret, and is accepted
C20_Witness ==
  /\ verification.stage = "verified"
  /\ env.MACHINE_ID_SECRET = config.machineIdSecret
  /\ verification.signedAt = 1000
  /\ verification.verifiedAt = verification.signedAt + 600
  /\ verification.result.valid
  /\ verification.result.machineId = <<HexDigest("other host")>>

\* C21 (SpecIdentity): with a secret provisioned, verifySignedMachineId accepts
\* an identifier if and only if it has exactly three colon-separated parts, its
\* timestamp is a number of seconds at most 600 s before the verification, and
\* its tag is the truncated MAC of fingerprint:timestamp under the endpoint's
\* secret.
C21_AcceptsIffWellFormedFreshSigned ==
  ( /\ verification.stage \in {"verified", "examined"}
    /\ env.MACHINE_ID_SECRET # "none" )
  => LET parts == split(verification.signedId)
         digits == LeadingDigits(parts[2])
     IN  verification.result.valid <=>
           /\ Len(parts) = 3
           /\ Len(digits) = Len(parts[2]) /\ digits # <<>>
           /\ verification.verifiedAt - DigitsValue(digits) <= 600
           /\ parts[3] = <<Hmac16(env.MACHINE_ID_SECRET,
                                  parts[1] \o <<Colon>> \o parts[2])>>

----------------------------------------------------------------------------
\* Properties of the rule engine and of the configuration

\* C22 (SpecRules): analyzeCommand returns what the first-match classifier over
\* the order safe allowlist, user whitelist, user danger patterns, built-in
\* danger patterns, else safe returns: a whitelist match yields safe whatever
\* custom or built-in patterns match, and a custom-pattern match yields the
\* severity and reason of the first custom pattern that matches whatever
\* built-in patterns match.
C22_FirstMatchClassifier ==
  LET command == stdin.command
      First(list) ==
        CHOOSE i \in DOMAIN list :
          /\ test(list[i], trim(command))
          /\ \A j \in 1 .. i - 1 : ~test(list[j], trim(command))
      custom == config.customPatterns[First(config.customPatterns)]
      builtin == DANGER_PATTERNS[First(DANGER_PATTERNS)]
  IN  pc # "start" =>
        IF MatchesAny(SAFE_PATTERNS, command)
          THEN ~analysis.isDangerous /\ analysis.reason = "Safe command"
        ELSE IF Whitelisted(config.whitelist, command)
          THEN ~analysis.isDangerous /\ analysis.reason = "Whitelisted command"
        ELSE IF MatchesAny(config.customPatterns, command)
          THEN /\ analysis.isDangerous
               /\ analysis.severity = custom.severity
               /\ analysis.reason = custom.reason
        ELSE IF MatchesAny(DANGER_PATTERNS, command)
          THEN /\ analysis.isDangerous
               /\ analysis.severity = builtin.severity
               /\ analysis.reason = builtin.reason
        ELSE ~analysis.isDangerous /\ analysis.reason = "No dangerous patterns detected"

\* "sudo rm -rf /" under a configuration whose second custom pattern matches it
\* with severity low, while three built-in patterns match it: the row carries
\* the custom pattern's severity and reason
C22_Witness ==
  /\ stdin.command = "sudo rm -rf /"
  /\ Len(config.customPatterns) = 2
  /\ config.customPatterns[1].reason = "Custom dangerous command"
  /\ config.customPatterns[2].reason = "Custom rm"
  /\ config.whitelist = <<"(">>
  /\ analysis.isDangerous /\ analysis.severity = "low" /\ analysis.reason = "Custom rm"
  /\ R \in DOMAIN approval_requests
  /\ approval_requests[R].severity = "low"

\* C23 (SpecConfig): whatever the value of CLAUDE_GUARD_DEFAULT_ACTION, when the
\* configuration file says defaultAction = deny the default action the
\* coordinator applies is deny: the loaded configuration says deny, and every
\* decision emitted on a failure or at the deadline is deny.
C23_EnvCannotWeakenDefaultAction ==
  (host.configFile.defaultAction = "deny" /\ config.loaded) =>
    /\ config.defaultAction = "deny"
    /\ \A i \in DOMAIN out :
         out[i].reason \notin {"", "Approved via"} => out[i].decision = "deny"

\* the file says deny, the environment says allow, and the deadline decided
C23_Witness ==
  /\ host.configFile.kind = "current" /\ host.configFile.defaultAction = "deny"
  /\ host.processEnv.CLAUDE_GUARD_DEFAULT_ACTION = "allow"
  /\ config.loaded
  /\ pc = "done"
  /\ out = <<[decision |-> "deny", reason |-> "Approval timed out"]>>

\* C24 (SpecConfig): the deadline the coordinator waits with is at least 10 s
\* for any value of rules.timeoutSeconds in the file, and at least 60 s whenever
\* CLAUDE_GUARD_TIMEOUT_SECONDS is what set it.
C24_DeadlineAtLeastTen ==
  timeoutId # "unset" =>
    /\ config.timeoutSeconds >= 10
    /\ ( /\ host.processEnv.CLAUDE_GUARD_TIMEOUT_SECONDS.set
         /\ config.timeoutSeconds # host.configFile.timeoutSeconds )
       => config.timeoutSeconds >= 60

\* C25 (SpecMask): the secret masker is idempotent: applied to its own result
\* it returns that result.
C25_MaskerIdempotent ==
  Len(masked) >= 3 => masked[3] = masked[2]

\* C26 (SpecWebhook): when a secret the endpoint requires (store URL and
\* service credential, provider signing secret or token) is missing from its
\* environment, every POST request to the endpoint is answered 500.
C26_MissingSecretAnswered500 ==
  \A c \in Callbacks :
    (/\ cb[c].pc = "done"
     /\ cb[c].req.method = "POST"
     /\ ~(env.SUPABASE /\ env.PROVIDER_SECRET)) => cb[c].resp = 500

\* C27 (SpecConfig): when the configuration cannot be loaded (the file is
\* missing, a symbolic link or unreadable, fails the integrity check or the
\* decryption, or is invalid after the environment overrides), the hook emits
\* allow for every Bash command, critical ones included, creates no request
\* and notifies nobody.
C27_NoConfigAllows ==
  LET file == host.configFile
      penv == host.processEnv
      unloadable ==
        \/ file.kind \in {"missing", "symlink", "unreadable"}
        \/ /\ file.kind = "current"
           /\ \/ file.hmac = "bad"
              \/ ~file.decrypts
              \/ ~file.services
              \/ OverrideTimeoutSeconds(file.timeoutSeconds,
                                        penv.CLAUDE_GUARD_TIMEOUT_SECONDS) < 10
              \/ OverrideDefaultAction(file.defaultAction,
                                       penv.CLAUDE_GUARD_DEFAULT_ACTION)
                   \notin {"allow", "deny"}
  IN  (stdin.kind = "command" /\ pc # "start" /\ (unloadable \/ ~config.loaded)) =>
        /\ pc = "done"
        /\ out = <<[decision |-> "allow", reason |-> ""]>>
        /\ approval_requests = EmptyStore
        /\ ~notified
        /\ ~supabaseClient

\* "rm -rf /" was allowed because the file's HMAC does not verify
C27_Witness ==
  /\ stdin = [kind |-> "command", command |-> "rm -rf /"]
  /\ host.configFile.kind = "current" /\ host.configFile.hmac = "bad"
  /\ host.configFile.defaultAction = "deny"
  /\ pc = "done"
  /\ ~config.loaded
  /\ out = <<[decision |-> "allow", reason |-> ""]>>
  /\ approval_requests = EmptyStore /\ ~notified

C29_StoreAgreesWithHook ==
  (pc = "done" /\ R \in DOMAIN approval_requests /\ Len(out) > 0) =>
    /\ approval_requests[R].status = "approved" => out[1].decision = "allow"
    /\ approval_requests[R].status = "rejected" => out[1].decision = "deny"

\* C30 (Spec): after a verdict has won the race (a local TTY verdict in
\* particular) the coordinator sends no further write to the store for the
\* request: the deadline timer does not fire later and send a timeout update.
C30_NoWriteAfterVerdict ==
  [][ result.status # "none" => ~(timeoutId = "armed" /\ timeoutId' = "updating") ]_vars

\* C31 (SpecListen): for one listenForApproval call, under any interleaving of
\* duplicate or repeated UPDATE events and the deadline timer, onResolved is
\* invoked at most once; with the status of an event only when that status is
\* not pending and neither an earlier event nor the timer has resolved the
\* wait, with timeout only from the timer; and an event that runs the callback
\* without resolving it is a pending one or comes after the resolution.
C31_ResolvedAtMostOnce ==
  [][ /\ Len(settled') <= 1
      /\ \A i \in DOMAIN settled' : settled'[i].source = "remote"
      /\ settled' # settled =>
           /\ ~resolved \/ timeoutId = "updating"
           /\ \/ /\ timeoutId = "armed"
                 /\ settled'[1].status \in feed \ {"pending"}
              \/ /\ timeoutId \in {"armed", "updating"} /\ timeoutId' = "fired"
                 /\ settled'[1].status = "timeout"
      /\ \A status \in feed :
           (feed' = feed \ {status} /\ settled' = settled /\ channel' = channel
              /\ timeoutId' = timeoutId)
             => (status = "pending" \/ resolved) ]_vars

\* the wait was resolved by an approved event, and a repetition of the event
\* and a pending event are in flight to the callback
C31_Witness ==
  /\ settled = <<[status |-> "approved", source |-> "remote"]>>
  /\ resolved /\ timeoutId = "cleared"
  /\ {"approved", "pending"} \subseteq feed

\* C32 (SpecDeadline): every invocation that reaches the wait for a verdict
\* eventually emits a decision: when neither a remote change nor a local
\* answer arrives it is emitted once the deadline timer fires, also when the
\* store's timeout update fails or does not complete.
C32_DecisionEventuallyEmitted ==
  (pc = "race") ~> (Len(out) > 0)

\* C33 (SpecWebhook): when hook and endpoint share the machine-identity
\* secret, an authenticated approve or reject callback for the pending row
\* that arrives within 3600 s of the row's creation (before the deadline of a
\* coordinator configured with rules.timeoutSeconds = 3600, a value
\* validateConfig admits) is never refused by the machine-identity check.
C33_SharedSecretNeverRefused ==
  \A c \in Callbacks :
    LET id == cb[c].req.rid
        row == approval_requests[id]
    IN (/\ cb[c].fetchedAt # NullTime
        /\ id \in DOMAIN approval_requests
        /\ row.status = "pending" \/ cb[c].affected = 1
        /\ env.MACHINE_ID_SECRET = "S1"
        /\ row.machine_id = getSignedMachineId(Fingerprint, "S1", row.created_at)
        /\ cb[c].fetchedAt - row.created_at <= MAX_REQUEST_AGE_SECONDS) =>
         cb[c].resp # 403

\* C34 (SpecBudget): rate-limit events are recorded before provider
\* authentication: a request answered 401 has been recorded against its
\* caller identifier, and once 30 requests of the identifier are recorded
\* within the last 60 s an authentic callback from it is refused with 429 and
\* changes no row.
C34_UnauthenticatedCountTowardBudget ==
  [][ \A c \in Callbacks :
        /\ (cb[c].resp # 401 /\ cb'[c].resp = 401) =>
             rate_limits'["ip1"] = Append(rate_limits["ip1"], now)
        /\ ( /\ cb[c].pc = "idle" /\ cb'[c].pc # "idle"
             /\ cb'[c].req \in AuthenticRequests(env.provider, now)
             /\ Cardinality({ i \in DOMAIN rate_limits["ip1"] :
                                rate_limits["ip1"][i] >= now - 60 }) >= 30 )
           => /\ cb'[c].pc = "done" /\ cb'[c].resp = 429
              /\ approval_requests' = approval_requests ]_vars

\* after 29 earlier requests, a request without the provider's credential was
\* answered 401 and recorded as the 30th, and the authentic approve that
\* followed was refused with 429: row R is still pending
C34_Witness ==
  /\ Len(rate_limits["ip1"]) = 30
  /\ cb[1].pc = "done" /\ cb[1].resp = 401 /\ cb[1].req.cred = "none"
  /\ cb[2].pc = "done" /\ cb[2].resp = 429
  /\ cb[2].req.cred = "good" /\ cb[2].req.rid = R /\ cb[2].req.action = "approve"
  /\ approval_requests[R].status = "pending"

\* C35 (SpecConfig): for a fixed configuration file and hook input, no
\* assignment of the CLAUDE_GUARD_* variables makes the hook emit allow for a
\* dangerous command that it would gate behind approval or deny with those
\* variables unset: the command is not allowed without a request.
C35_EnvCannotAllowDangerous ==
  LET unset == loadConfig(host.configFile, NoProcessEnv, TRUE)
      gated == /\ host.configFile.kind = "current"
               /\ unset.loaded /\ unset.customPatternsValid
               /\ analyzeCommand(stdin.command, unset.customPatterns,
                                 unset.whitelist).isDangerous
  IN  (stdin.kind = "command" /\ gated /\ pc = "done") =>
        out # <<[decision |-> "allow", reason |-> ""]>>

\* C36 (SpecWebhook): an authenticated callback whose payload is malformed, or
\* whose request id is not a canonical v4 identifier, is answered 400 before
\* any approval_requests row is selected or updated, on every endpoint.
C36_MalformedAnswered400 ==
  \A c \in Callbacks :
    LET req == cb[c].req
    IN (/\ cb[c].pc = "done"
        /\ req.method = "POST"
        /\ env.SUPABASE /\ env.PROVIDER_SECRET
        /\ cb[c].authAt # NullTime
        /\ ProviderAuthenticated(env.provider, req, cb[c].authAt)
        /\ req.payload \in {"unparsable", "missing", "wrongType", "badId"}) =>
         /\ cb[c].resp = 400
         /\ cb[c].fetchedAt = NullTime
         /\ cb[c].affected = 0 - 1

\* C37 (SpecRules): with no safe-allowlist, whitelist or custom-pattern match,
\* a command that matches built-in patterns of several severities is reported
\* with the highest of those severities (critical > high > medium > low) and
\* with the reason of a pattern of that severity.
C37_HighestSeverityReported ==
  LET command == stdin.command
      Rank(severity) ==
        CASE severity = "critical" -> 4 [] severity = "high" -> 3
          [] severity = "medium" -> 2 [] OTHER -> 1
      matching == { i \in DOMAIN DANGER_PATTERNS : test(DANGER_PATTERNS[i], trim(command)) }
  IN  ( /\ pc # "start"
        /\ ~MatchesAny(SAFE_PATTERNS, command)
        /\ ~Whitelisted(config.whitelist, command)
        /\ ~MatchesAny(config.customPatterns, command)
        /\ matching # {} ) =>
        /\ analysis.isDangerous
        /\ \A i \in matching : Rank(analysis.severity) >= Rank(DANGER_PATTERNS[i].severity)
        /\ \E i \in matching : /\ analysis.severity = DANGER_PATTERNS[i].severity
                                /\ analysis.reason = DANGER_PATTERNS[i].reason

\* a force push, which also matches the medium "git push" pattern, under a
\* configuration with one custom pattern that does not match it: the request
\* row carries severity critical
C37_Witness ==
  /\ stdin.command = "git push --force"
  /\ Len(config.customPatterns) = 1 /\ config.whitelist = <<>>
  /\ Cardinality({ i \in DOMAIN DANGER_PATTERNS :
                     test(DANGER_PATTERNS[i], "git push --force") }) = 2
  /\ analysis.isDangerous /\ analysis.severity = "critical"
  /\ analysis.reason = "Force push can overwrite remote history"
  /\ R \in DOMAIN approval_requests
  /\ approval_requests[R].severity = "critical"

\* C38 (Spec): every update of a row, by a callback transition or by the
\* coordinator's timeout update, changes only status, resolved_at and
\* resolved_by: the row keeps its id, and command, danger_reason, severity,
\* cwd, created_at and machine_id keep the values they had at insert.
C38_UpdatesKeepInsertedFields ==
  [][ \A id \in DOMAIN approval_requests :
        /\ id \in DOMAIN approval_requests'
        /\ approval_requests'[id].command = approval_requests[id].command
        /\ approval_requests'[id].danger_reason = approval_requests[id].danger_reason
        /\ approval_requests'[id].severity = approval_requests[id].severity
        /\ approval_requests'[id].cwd = approval_requests[id].cwd
        /\ approval_requests'[id].created_at = approval_requests[id].created_at
        /\ approval_requests'[id].machine_id = approval_requests[id].machine_id ]_vars

\* row R was approved by a callback: it has its resolution fields (time and
\* approver), and still the identifier the hook signed and the
\* severity and reason of the analysis
C38_Witness ==
  /\ R \in DOMAIN approval_requests
  /\ approval_requests[R].status = "approved"
  /\ approval_requests[R].resolved_by # "null"
  /\ approval_requests[R].resolved_at # NullTime
  /\ approval_requests[R].created_at # NullTime
  /\ approval_requests[R].machine_id = signedMachineId
  /\ approval_requests[R].severity = analysis.severity
  /\ approval_requests[R].danger_reason = analysis.reason

\* C39 (Spec): a notification carrying request id R is sent only after row R
\* has been inserted with status pending: the row is there and pending when
\* the notification is being sent, it is there once the notification has been
\* sent, and a callback for R that selects the row does not find it missing.
C39_NotifiedAfterInsert ==
  /\ pc = "notify" =>
       R \in DOMAIN approval_requests /\ approval_requests[R].status = "pending"
  /\ notified => R \in DOMAIN approval_requests
  /\ \A c \in Callbacks :
       (cb[c].req.rid = R /\ (cb[c].pc = "fetch" \/ cb[c].fetchedAt # NullTime)) =>
         R \in DOMAIN approval_requests

\* the notification was sent, and a callback carrying R has selected the row
\* inserted before it and found it pending
C39_Witness ==
  /\ notified
  /\ \E c \in Callbacks :
       /\ cb[c].req.rid = R /\ cb[c].pc = "update" /\ cb[c].fetchedAt # NullTime
       /\ cb[c].resp = 0
  /\ approval_requests[R].status = "pending"
  /\ approval_requests[R].created_at # NullTime

====
